---- MODULE Spec2Model ----
(***************************************************************************)
(* A model of the pipeline graph of pycebes: stages with typed slots       *)
(* (core/stages.py), the Pipeline that collects them (core/pipeline.py),   *)
(* the convenience constructors of core/pipeline_api.py and the            *)
(* request/response protocol of Pipeline.run.                              *)
(*                                                                         *)
(* Stage objects and pipelines are identified by small integers (object    *)
(* identity).  Python values are records tagged by the field k.            *)
(***************************************************************************)
EXTENDS Integers, Sequences, FiniteSets, TLC

(***************************************************************************)
(* Bounds of the model.                                                    *)
(***************************************************************************)
\* number of Stage objects that can be constructed
NStages == 2
\* number of Pipeline objects
NPipelines == 1
\* most slots one call of Pipeline.run names, in outputs and feeds together
MaxRunArgs == 2
\* longest result list in an engine response
MaxResults == 2
\* number of distinct pipeline ids the engine hands out
NIds == 2
\* most SlotDescriptor objects that are constructed
MaxDescriptors == 8

StageIds == 1 .. NStages
Pipelines == 1 .. NPipelines
\* the Pipeline objects that exist: one more than those most callers use
AllPipelines == 1 .. NPipelines + 1
\* names a caller passes to set_name / name=...
ExplicitNames == {"x", "drop_0"}

(***************************************************************************)
(* Python values.                                                          *)
(***************************************************************************)
NoneV == [k |-> "None"]
TextV(t) == [k |-> "text", v |-> t]
ListV(n) == [k |-> "list", v |-> n]
DataframeV(i) == [k |-> "Dataframe", id |-> i]
\* a pipeline.Model handle
ModelV(i) == [k |-> "Model", id |-> i]
\* the object of class Stage with identity s
StageV(s) == [k |-> "Stage", id |-> s]

\* SlotDescriptor.__init__
SlotDescriptor(parent, name, is_input) ==
    [k |-> "SlotDescriptor", parent |-> parent, name |-> name, is_input |-> is_input]

isSlotDescriptor(v) == v.k = "SlotDescriptor"

\* a Python dict as a function; d[key] = value
DictSet(d, key, value) ==
    [x \in (DOMAIN d) \cup {key} |-> IF x = key THEN value ELSE d[x]]
\* d.get(key, default)
DictGet(d, key, default) == IF key \in DOMAIN d THEN d[key] ELSE default
EmptyDict == [x \in {} |-> NoneV]

(***************************************************************************)
(* MessageType: the kinds of core/stages.py.                               *)
(***************************************************************************)
VALUE_DEF == "ValueDef"
STAGE_OUTPUT_DEF == "StageOutputDef"
DATAFRAME_DEF == "DataframeMessageDef"
SAMPLE_DEF == "SampleMessageDef"
MODEL_DEF == "ModelMessageDef"
COLUMN_DEF == "ColumnDef"

\* _Slot namedtuple
Slot(name, message_type, is_input, server_name) ==
    [name |-> name, message_type |-> message_type, is_input |-> is_input,
     server_name |-> server_name]

\* Stage.SLOTS after all class decorators ran: one bucket per declaring class,
\* in the order the decorators were applied (bottom decorator first)
SLOTS ==
    [c \in {"Stage", "_UnaryTransformer", "_Estimator", "_HasInputCol", "Drop",
            "DataframePlaceholder", "ValuePlaceholder", "ColumnPlaceholder"} |->
       CASE c = "Stage" -> << Slot("name", VALUE_DEF, TRUE, "name") >>
         [] c = "_UnaryTransformer" ->
              << Slot("output_df", DATAFRAME_DEF, FALSE, "outputDf"),
                 Slot("input_df", DATAFRAME_DEF, TRUE, "inputDf") >>
         [] c = "_Estimator" ->
              << Slot("output_df", DATAFRAME_DEF, FALSE, "outputDf"),
                 Slot("model", MODEL_DEF, FALSE, "model"),
                 Slot("input_df", DATAFRAME_DEF, TRUE, "inputDf") >>
         [] c = "_HasInputCol" -> << Slot("input_col", VALUE_DEF, TRUE, "inputCol") >>
         [] c = "Drop" -> << Slot("col_names", VALUE_DEF, TRUE, "colNames") >>
         [] c = "DataframePlaceholder" ->
              << Slot("output_val", DATAFRAME_DEF, FALSE, "outputVal"),
                 Slot("input_val", DATAFRAME_DEF, TRUE, "inputVal") >>
         [] c = "ValuePlaceholder" ->
              << Slot("output_val", VALUE_DEF, FALSE, "outputVal"),
                 Slot("input_val", VALUE_DEF, TRUE, "inputVal") >>
         [] c = "ColumnPlaceholder" ->
              << Slot("output_val", COLUMN_DEF, FALSE, "outputVal"),
                 Slot("input_val", COLUMN_DEF, TRUE, "inputVal") >>]

\* the concrete stage classes a caller instantiates
Classes == {"Drop", "DataframePlaceholder"}

\* every stage class of the model: Classes and the two other placeholders
StageClasses == Classes \cup {"ValuePlaceholder", "ColumnPlaceholder"}

\* cls.mro()
mro(c) ==
    CASE c = "Drop" -> << "Drop", "_UnaryTransformer", "Stage", "object" >>
      [] OTHER -> << c, "Placeholder", "Stage", "object" >>

\* isinstance(stage, Placeholder)
isPlaceholderClass(c) == \E i \in 1 .. Len(mro(c)) : mro(c)[i] = "Placeholder"

\* cls.__name__.lower()
lower(c) ==
    CASE c = "Drop" -> "drop"
      [] c = "DataframePlaceholder" -> "dataframeplaceholder"
      [] c = "ValuePlaceholder" -> "valueplaceholder"
      [] c = "ColumnPlaceholder" -> "columnplaceholder"

RECURSIVE SelectSlots(_, _)
SelectSlots(ss, is_input) ==
    IF ss = << >> THEN << >>
    ELSE (IF Head(ss).is_input = is_input THEN << Head(ss) >> ELSE << >>)
         \o SelectSlots(Tail(ss), is_input)

RECURSIVE SlotsAlong(_, _)
SlotsAlong(classes, is_input) ==
    IF classes = << >> THEN << >>
    ELSE (IF Head(classes) \in DOMAIN SLOTS
          THEN SelectSlots(SLOTS[Head(classes)], is_input) ELSE << >>)
         \o SlotsAlong(Tail(classes), is_input)

\* _get_slots of every concrete class and direction
SlotTable ==
    [c \in StageClasses |-> [is_input \in BOOLEAN |-> SlotsAlong(mro(c), is_input)]]

\* _get_slots(cls, is_input)
get_slots(c, is_input) == SlotTable[c][is_input]

\* next((s for s in ss if s.name == slot_name), None) is not None
named_in(ss, slot_name) == \E i \in 1 .. Len(ss) : ss[i].name = slot_name

\* next(s for s in ss if s.name == slot_name): the first match
first_named(ss, slot_name) ==
    ss[CHOOSE j \in 1 .. Len(ss) :
         /\ ss[j].name = slot_name
         /\ \A m \in 1 .. j - 1 : ss[m].name # slot_name]

\* Stage.slot found: some declared slot has this name and direction
hasSlot(c, slot_name, is_input) == named_in(get_slots(c, is_input), slot_name)

\* Stage.slot(slot_name, is_input): the first match; ValuePlaceholder.slot
\* answers for its two own slots whatever is_input is
slot(c, slot_name, is_input) ==
    IF c = "ValuePlaceholder" /\ slot_name \in {"input_val", "output_val"}
    THEN Slot(slot_name, VALUE_DEF, slot_name = "input_val",
              IF slot_name = "input_val" THEN "inputVal" ELSE "outputVal")
    ELSE first_named(get_slots(c, is_input), slot_name)

(***************************************************************************)
(* The definition of a new stage class: `class X(bases)` under a stack of  *)
(* input_slot / output_slot decorators.  decls is the sequence of the      *)
(* decorated slots in the order the decorators run (bottom one first).     *)
(***************************************************************************)
\* the classes a new stage class is composed from; each derives from Stage
MixinClasses == {"_UnaryTransformer", "_Estimator", "_HasInputCol"}

\* X.mro() of `class X(bases)`
class_mro(bases) == << "X" >> \o bases \o << "Stage", "object" >>

\* _get_slots(X, is_input) while SLOTS["X"] is bucket
class_slots(bucket, bases, is_input) ==
    SelectSlots(bucket, is_input) \o SlotsAlong(Tail(class_mro(bases)), is_input)

\* one decorator _add_slot(...)(X), entered in the state r = [raised, bucket]
add_slot(r, bases, s) ==
    IF r.raised \/ named_in(class_slots(r.bucket, bases, s.is_input), s.name)
    THEN [raised |-> TRUE, bucket |-> r.bucket]
    ELSE [raised |-> FALSE, bucket |-> Append(r.bucket, s)]

\* all decorators of the class definition, in the order they run
RECURSIVE add_slots(_, _)
add_slots(bases, decls) ==
    IF decls = << >> THEN [raised |-> FALSE, bucket |-> << >>]
    ELSE add_slot(add_slots(bases, SubSeq(decls, 1, Len(decls) - 1)), bases,
                  decls[Len(decls)])

(***************************************************************************)
(* The state.                                                              *)
(***************************************************************************)
VARIABLES
    \* class of each constructed Stage object, "unbuilt" before its constructor
    stage_class,
    \* Stage._slot_values of each stage: slot name -> bound value
    slot_values,
    \* Pipeline._stages of each pipeline
    stages,
    \* Pipeline._id of each pipeline
    id,
    \* the call that has just been made, with its arguments and what the caller
    \* observes of it; "idle" once the caller has taken the outcome
    call,
    \* the SlotDescriptor objects constructed so far; the identity of an object
    \* is its position.  Tracked for the descriptors Stage.__init__ makes and
    \* those the caller gets by attribute access; the accesses made inside the
    \* other operations are represented by the value slot_attr
    descriptors,
    \* the attributes _<slot name> of each stage: slot name -> descriptor object
    slot_desc_attr

vars == << stage_class, slot_values, stages, id, call, descriptors, slot_desc_attr >>

built == {s \in StageIds : stage_class[s] # "unbuilt"}

\* the elements of a Python list
elems(seq) == {seq[i] : i \in 1 .. Len(seq)}

(***************************************************************************)
(* MessageType.is_valid and the Stage accessors, as functions of the       *)
(* classes sc and the slot values sv of all stages.                        *)
(***************************************************************************)
\* SlotDescriptor.message_type (the msg_type of the parent's slot)
message_type(sc, d) == slot(sc[d.parent], d.name, d.is_input).message_type

\* SlotDescriptor.server_name
server_name(sc, d) == slot(sc[d.parent], d.name, d.is_input).server_name

\* isinstance(value, _types[msg_type]) of MessageType.is_valid
isinstance_of(value, msg_type) ==
    CASE msg_type = VALUE_DEF -> value.k \in {"int", "float", "text", "list", "tuple", "dict"}
      [] msg_type = DATAFRAME_DEF -> value.k = "Dataframe"
      [] msg_type = SAMPLE_DEF -> value.k = "DataSample"
      [] msg_type = COLUMN_DEF -> value.k = "Column"
      [] OTHER -> FALSE

\* MessageType.is_valid raises NotImplementedError
is_valid_raises(msg_type, value) == value # NoneV /\ msg_type = MODEL_DEF

\* MessageType.is_valid, where it returns
is_valid(sc, msg_type, value) ==
    IF value = NoneV THEN TRUE
    ELSE IF msg_type \in {VALUE_DEF, DATAFRAME_DEF, SAMPLE_DEF, COLUMN_DEF}
         THEN IF isSlotDescriptor(value)
              THEN message_type(sc, value) = msg_type
              ELSE isinstance_of(value, msg_type)
         ELSE msg_type = STAGE_OUTPUT_DEF /\ isSlotDescriptor(value)

\* the attribute stage.name: the memoized descriptor of the slot "name"
name_attr(s) == SlotDescriptor(s, "name", TRUE)

\* the attribute stage.<slot_name> of a declared slot (prop_get)
slot_attr(sc, s, slot_name) ==
    SlotDescriptor(s, slot_name, hasSlot(sc[s], slot_name, TRUE))

\* the precondition of Stage.get_input and the first one of Stage.set_input
own_input(s, slot_desc) ==
    isSlotDescriptor(slot_desc) /\ slot_desc.parent = s /\ slot_desc.is_input

\* Stage.get_input(slot_desc, default), where it does not raise
get_input(sv, s, slot_desc, default) == DictGet(sv[s], slot_desc.name, default)

\* Stage.get_name()
get_name(sv, s) == get_input(sv, s, name_attr(s), NoneV)

\* Stage.set_input raises, were every value checked with MessageType.is_valid only
set_input_raises_by_is_valid(sc, s, slot_desc, value) ==
    \/ ~own_input(s, slot_desc)
    \/ is_valid_raises(message_type(sc, slot_desc), value)
    \/ ~is_valid(sc, message_type(sc, slot_desc), value)

\* Stage.set_input raises
set_input_raises(sc, s, slot_desc, value) ==
    \/ ~own_input(s, slot_desc)
    \/ IF isSlotDescriptor(value)
       THEN ~(~value.is_input /\ message_type(sc, value) = message_type(sc, slot_desc))
       ELSE \/ is_valid_raises(message_type(sc, slot_desc), value)
            \/ ~is_valid(sc, message_type(sc, slot_desc), value)

\* Stage.set_input that checks the slot and not the value
set_input_unchecked(sc, sv, s, slot_desc, value) ==
    IF ~own_input(s, slot_desc) THEN sv
    ELSE [sv EXCEPT ![s] = DictSet(@, slot_desc.name, value)]

\* Stage.set_input: the slot values after the call
set_input(sc, sv, s, slot_desc, value) ==
    IF set_input_raises(sc, s, slot_desc, value) THEN sv
    ELSE [sv EXCEPT ![s] = DictSet(@, slot_desc.name, value)]

\* Stage.set_name
set_name(sc, sv, s, new_name) == set_input(sc, sv, s, name_attr(s), new_name)

(***************************************************************************)
(* Pipeline.__contains__ and Pipeline.add.                                 *)
(***************************************************************************)
\* Pipeline.__contains__ that compares the names get_name() returns
contains_by_get_name(st, item) ==
    LET item_name == IF item.k = "Stage" THEN get_name(slot_values, item.id) ELSE item
    IN \E i \in 1 .. Len(st) : get_name(slot_values, st[i]) = item_name

\* Pipeline.__contains__(item) for a Stage object or a string
contains(st, item) ==
    LET item_name == IF item.k = "Stage" THEN name_attr(item.id) ELSE item
    IN \E i \in 1 .. Len(st) : name_attr(st[i]) = item_name

\* Pipeline.__getitem__(item): the first stage s with s.name == item; raised
\* (KeyError) when there is none
getitem(st, item) ==
    IF \E i \in 1 .. Len(st) : name_attr(st[i]) = item
    THEN [raised |-> FALSE,
          ret |-> StageV(st[CHOOSE i \in 1 .. Len(st) :
                              /\ name_attr(st[i]) = item
                              /\ \A j \in 1 .. i - 1 : name_attr(st[j]) # item])]
    ELSE [raised |-> TRUE, ret |-> NoneV]

\* name_template.format(idx)
format_name(c, idx) == TextV(lower(c) \o "_" \o ToString(idx))

\* the name the while loop of Pipeline.add stops at
new_name(sc, st, s) ==
    LET idx == CHOOSE n \in 0 .. Len(st) :
                 /\ ~contains(st, format_name(sc[s], n))
                 /\ \A m \in 0 .. n - 1 : contains(st, format_name(sc[s], m))
    IN format_name(sc[s], idx)

\* the duplicate test written with the attribute s.name instead of s.get_name()
duplicated_name_by_attr(sv, st, s) ==
    \E i \in 1 .. Len(st) : name_attr(st[i]) = get_name(sv, s)

\* the test for a duplicated stage name in Pipeline.add
duplicated_name(sv, st, s) ==
    \E i \in 1 .. Len(st) : get_name(sv, st[i]) = get_name(sv, s)

\* Pipeline.add without its first test `if stage in self._stages`
add_without_present_test(sc, sv, st, s) ==
    IF get_name(sv, s) = NoneV
    THEN [raised |-> FALSE, stages |-> Append(st, s),
          sv |-> set_name(sc, sv, s, new_name(sc, st, s)), ret |-> StageV(s)]
    ELSE IF duplicated_name(sv, st, s)
         THEN [raised |-> TRUE, stages |-> st, sv |-> sv, ret |-> NoneV]
         ELSE [raised |-> FALSE, stages |-> Append(st, s), sv |-> sv, ret |-> StageV(s)]

\* Pipeline.add(stage): whether it raised, and the stage list, the slot values
\* and the returned object after the call
add(sc, sv, st, s) ==
    IF s \in elems(st)
    THEN [raised |-> FALSE, stages |-> st, sv |-> sv, ret |-> StageV(s)]
    ELSE IF get_name(sv, s) = NoneV
         THEN [raised |-> FALSE, stages |-> Append(st, s),
               sv |-> set_name(sc, sv, s, new_name(sc, st, s)), ret |-> StageV(s)]
         ELSE IF duplicated_name(sv, st, s)
              THEN [raised |-> TRUE, stages |-> st, sv |-> sv, ret |-> NoneV]
              ELSE [raised |-> FALSE, stages |-> Append(st, s), sv |-> sv,
                    ret |-> StageV(s)]

(***************************************************************************)
(* Operations a caller performs on stages and pipelines.                   *)
(***************************************************************************)
\* Stage.__init__ of a concrete class c: the next Stage object
NewStage(c) ==
    /\ call.op = "idle"
    /\ \E s \in StageIds :
         /\ stage_class[s] = "unbuilt"
         /\ \A t \in 1 .. s - 1 : stage_class[t] # "unbuilt"
         /\ stage_class' = [stage_class EXCEPT ![s] = c]
         /\ slot_values' = [slot_values EXCEPT ![s] = EmptyDict]
         /\ descriptors' = Append(descriptors, name_attr(s))
         /\ slot_desc_attr' = [slot_desc_attr EXCEPT
                                 ![s] = DictSet(EmptyDict, "name", Len(descriptors) + 1)]
         /\ call' = [op |-> "Stage", stage |-> s]
    /\ UNCHANGED << stages, id >>

\* stage.set_name(new_name)
SetName(s, nm) ==
    /\ call.op = "idle"
    /\ s \in built
    /\ slot_values' = set_name(stage_class, slot_values, s, nm)
    /\ call' = [op |-> "set_name", stage |-> s, name |-> nm,
                raised |-> set_input_raises(stage_class, s, name_attr(s), nm)]
    /\ UNCHANGED << stage_class, stages, id, descriptors, slot_desc_attr >>

\* pipeline.add(stage)
Add(p, s) ==
    /\ call.op = "idle"
    /\ s \in built
    /\ \E r \in {add(stage_class, slot_values, stages[p], s)} :
          /\ stages' = [stages EXCEPT ![p] = r.stages]
          /\ slot_values' = r.sv
          /\ call' = [op |-> "add", pipeline |-> p, stage |-> s,
                      raised |-> r.raised, ret |-> r.ret]
    /\ UNCHANGED << stage_class, id, descriptors, slot_desc_attr >>

\* stage.set_input(slot_desc, value)
SetInput(s, slot_desc, value) ==
    /\ call.op = "idle"
    /\ s \in built
    /\ slot_values' = set_input(stage_class, slot_values, s, slot_desc, value)
    /\ call' = [op |-> "set_input", stage |-> s, slot_desc |-> slot_desc, value |-> value,
                raised |-> set_input_raises(stage_class, s, slot_desc, value)]
    /\ UNCHANGED << stage_class, stages, id, descriptors, slot_desc_attr >>

\* stage.get_input(slot_desc): raises ValueError unless slot_desc is an input
\* descriptor of this stage
GetInput(s, slot_desc) ==
    /\ call.op = "idle"
    /\ s \in built
    /\ call' = [op |-> "get_input", stage |-> s, slot_desc |-> slot_desc,
                raised |-> ~own_input(s, slot_desc),
                ret |-> IF own_input(s, slot_desc)
                        THEN get_input(slot_values, s, slot_desc, NoneV) ELSE NoneV]
    /\ UNCHANGED << stage_class, slot_values, stages, id, descriptors, slot_desc_attr >>

\* the definition of a stage class X with the given bases and decorated slots:
\* whether a decorator raised, and the slots _get_slots gives for X
DefineClass(bases, decls) ==
    /\ call.op = "idle"
    /\ \E r \in {add_slots(bases, decls)} :
         call' = [op |-> "class", bases |-> bases, decls |-> decls, raised |-> r.raised,
                  slots |-> [is_input \in BOOLEAN |->
                               class_slots(r.bucket, bases, is_input)]]
    /\ UNCHANGED << stage_class, slot_values, stages, id, descriptors, slot_desc_attr >>

\* `item in pipeline` for a Stage object or a string
Contains(p, item) ==
    /\ call.op = "idle"
    /\ call' = [op |-> "contains", pipeline |-> p, item |-> item,
                ret |-> contains(stages[p], item)]
    /\ UNCHANGED << stage_class, slot_values, stages, id, descriptors, slot_desc_attr >>

\* pipeline[item]
GetItem(p, item) ==
    /\ call.op = "idle"
    /\ \E r \in {getitem(stages[p], item)} :
         call' = [op |-> "getitem", pipeline |-> p, item |-> item,
                  raised |-> r.raised, ret |-> r.ret]
    /\ UNCHANGED << stage_class, slot_values, stages, id, descriptors, slot_desc_attr >>

(***************************************************************************)
(* The slot properties of a stage class (prop_get of _add_slot).           *)
(***************************************************************************)
\* the is_input_slot of the property <slot_name> that attribute lookup finds
\* along classes: the first class that declares the name has it, set by the
\* last of its decorators for that name
RECURSIVE prop_is_input(_, _)
prop_is_input(classes, slot_name) ==
    IF Head(classes) \in DOMAIN SLOTS /\ named_in(SLOTS[Head(classes)], slot_name)
    THEN LET ss == SLOTS[Head(classes)]
         IN ss[CHOOSE j \in 1 .. Len(ss) :
                 /\ ss[j].name = slot_name
                 /\ \A m \in j + 1 .. Len(ss) : ss[m].name # slot_name].is_input
    ELSE prop_is_input(Tail(classes), slot_name)

\* prop_get that constructs a descriptor at every access and keeps none
prop_get_unmemoized(ds, attr, s, slot_name, is_input_slot) ==
    [ret |-> Len(ds) + 1,
     descriptors |-> Append(ds, SlotDescriptor(s, slot_name, is_input_slot)),
     attr |-> attr]

\* prop_get(slot_name, is_input_slot, self) with the descriptor objects ds and
\* the attributes attr of self: the returned object, and both after the call
prop_get(ds, attr, s, slot_name, is_input_slot) ==
    IF slot_name \in DOMAIN attr
    THEN [ret |-> attr[slot_name], descriptors |-> ds, attr |-> attr]
    ELSE [ret |-> Len(ds) + 1,
          descriptors |-> Append(ds, SlotDescriptor(s, slot_name, is_input_slot)),
          attr |-> DictSet(attr, slot_name, Len(ds) + 1)]

\* stage.<slot_name>: AttributeError when the class has no such property
GetAttr(s, slot_name) ==
    /\ call.op = "idle"
    /\ s \in built
    /\ Len(descriptors) < MaxDescriptors
    /\ IF ~\E io \in BOOLEAN : hasSlot(stage_class[s], slot_name, io)
       THEN /\ call' = [op |-> "getattr", stage |-> s, name |-> slot_name,
                        raised |-> TRUE, ret |-> 0]
            /\ UNCHANGED << descriptors, slot_desc_attr >>
       ELSE \E r \in {prop_get(descriptors, slot_desc_attr[s], s, slot_name,
                               prop_is_input(mro(stage_class[s]), slot_name))} :
              /\ descriptors' = r.descriptors
              /\ slot_desc_attr' = [slot_desc_attr EXCEPT ![s] = r.attr]
              /\ call' = [op |-> "getattr", stage |-> s, name |-> slot_name,
                          raised |-> FALSE, ret |-> r.ret]
    /\ UNCHANGED << stage_class, slot_values, stages, id >>

(***************************************************************************)
(* pipeline_api._create_stage: the constructors placeholder(), drop().     *)
(* kwargs is the sequence of <<slot name, value>> pairs in keyword order.  *)
(***************************************************************************)
\* the conversion of one keyword value: a Placeholder becomes its output_val
kwarg_value(sc, v) ==
    IF v.k = "Stage" /\ isPlaceholderClass(sc[v.id])
    THEN slot_attr(sc, v.id, "output_val") ELSE v

\* the loop over kwargs without its ppl.add(v.parent)
add_parent_skipped(sc, r, v) == r

\* one iteration of the loop over kwargs, entered in the state r with the
\* converted value v: ppl.add(v.parent) when v is a descriptor
add_parent(sc, r, v) ==
    IF r.raised \/ ~isSlotDescriptor(v) THEN r ELSE add(sc, r.sv, r.stages, v.parent)

\* the loop over kwargs: whether a ppl.add raised, the stage list and the slot
\* values after it
RECURSIVE add_parents(_, _, _, _)
add_parents(sc, sv, st, kwargs) ==
    IF kwargs = << >> THEN [raised |-> FALSE, stages |-> st, sv |-> sv, ret |-> NoneV]
    ELSE add_parent(sc, add_parents(sc, sv, st, SubSeq(kwargs, 1, Len(kwargs) - 1)),
                    kwarg_value(sc, kwargs[Len(kwargs)][2]))

\* one iteration of Stage.set_inputs, entered in the state r:
\* self.set_input(getattr(self, k), v)
set_inputs_item(sc, s, r, d, v) ==
    IF r.raised \/ set_input_raises(sc, s, d, v) THEN [raised |-> TRUE, sv |-> r.sv]
    ELSE [raised |-> FALSE, sv |-> set_input(sc, r.sv, s, d, v)]

\* Stage.set_inputs(**inputs): whether it raised and the slot values after it
RECURSIVE set_inputs(_, _, _, _)
set_inputs(sc, sv, s, kwargs) ==
    IF kwargs = << >> THEN [raised |-> FALSE, sv |-> sv]
    ELSE set_inputs_item(sc, s, set_inputs(sc, sv, s, SubSeq(kwargs, 1, Len(kwargs) - 1)),
                         slot_attr(sc, s, kwargs[Len(kwargs)][1]),
                         kwarg_value(sc, kwargs[Len(kwargs)][2]))

\* what a call of _create_stage that raised leaves: the fresh stage s is
\* dropped, the stages added before stay in the pipeline
create_stage_raised(sc0, sv, st, s) ==
    [raised |-> TRUE, sc |-> sc0, sv |-> [sv EXCEPT ![s] = EmptyDict], stages |-> st]

\* `return ppl.add(...)`: the outcome of _create_stage from the outcome r4 of
\* the add of the fresh stage s
create_stage_added(sc0, sc, sv, st, s, r4) ==
    IF r4.raised THEN create_stage_raised(sc0, sv, st, s)
    ELSE [raised |-> FALSE, sc |-> sc, sv |-> r4.sv, stages |-> r4.stages]

\* `ppl.add(stage.set_inputs(**inputs))` with the outcome r3 of set_inputs
create_stage_add(sc0, sc, st, s, r3) ==
    IF r3.raised THEN create_stage_raised(sc0, r3.sv, st, s)
    ELSE create_stage_added(sc0, sc, r3.sv, st, s, add(sc, r3.sv, st, s))

\* _create_stage after the loop over kwargs ended with the outcome r2
create_stage_inputs(sc0, sc, s, kwargs, r2) ==
    IF r2.raised THEN create_stage_raised(sc0, r2.sv, r2.stages, s)
    ELSE create_stage_add(sc0, sc, r2.stages, s, set_inputs(sc, r2.sv, s, kwargs))

\* _create_stage(stage, stage_name, **kwargs) with the fresh stage s of class c
\* and the default pipeline whose stage list is st
create_stage(sc0, sv0, st, s, c, stage_name, kwargs) ==
    create_stage_inputs(
        sc0, [sc0 EXCEPT ![s] = c], s, kwargs,
        add_parents([sc0 EXCEPT ![s] = c],
                    IF stage_name = NoneV THEN sv0
                    ELSE set_name([sc0 EXCEPT ![s] = c], sv0, s, stage_name),
                    st, kwargs))

\* a pipeline_api constructor called while p is the default pipeline; a call
\* that raises leaves no reference to the fresh stage
CreateStage(p, c, stage_name, kwargs) ==
    /\ call.op = "idle"
    /\ \E s \in StageIds :
         /\ stage_class[s] = "unbuilt"
         /\ \A t \in 1 .. s - 1 : stage_class[t] # "unbuilt"
         /\ \E r \in {create_stage(stage_class, slot_values, stages[p], s, c,
                                      stage_name, kwargs)} :
               /\ stage_class' = r.sc
               /\ slot_values' = r.sv
               /\ stages' = [stages EXCEPT ![p] = r.stages]
               /\ descriptors' = IF r.raised THEN descriptors
                                 ELSE Append(descriptors, name_attr(s))
               /\ slot_desc_attr' =
                    IF r.raised THEN slot_desc_attr
                    ELSE [slot_desc_attr EXCEPT
                            ![s] = DictSet(EmptyDict, "name", Len(descriptors) + 1)]
               /\ call' = [op |-> "create", pipeline |-> p, stage |-> s, class |-> c,
                           name |-> stage_name, kwargs |-> kwargs, raised |-> r.raised]
    /\ UNCHANGED id

(***************************************************************************)
(* Serialization: SlotDescriptor.to_json, MessageType.to_json,             *)
(* Stage.to_json, Pipeline.to_json.                                        *)
(***************************************************************************)
\* '{}'.format(name) of a stage name
str(v) == IF v = NoneV THEN "None" ELSE v.v

\* SlotDescriptor.to_json with the name the parent got when it was added
slot_to_json_first_name(sc, sv, d) ==
    [stageName |-> format_name(sc[d.parent], 0), outputName |-> server_name(sc, d)]

\* SlotDescriptor.to_json
slot_to_json(sc, sv, d) ==
    [stageName |-> get_name(sv, d.parent), outputName |-> server_name(sc, d)]

\* SlotDescriptor.full_server_name
full_server_name(sc, sv, d) == str(get_name(sv, d.parent)) \o ":" \o server_name(sc, d)

\* serializer.to_json(value, param_type) of pycebes.internal.serializer
serializer_to_json(value) == [k |-> "json", of |-> value]

\* serializer.from_json(js) of pycebes.internal.serializer
serializer_from_json(js) == js.of

\* MessageType.to_json raises
message_to_json_raises(sc, msg_type, value) ==
    \/ is_valid_raises(msg_type, value)
    \/ ~is_valid(sc, msg_type, value)
    \/ /\ value # NoneV
       /\ IF isSlotDescriptor(value) THEN message_type(sc, value) # msg_type
          ELSE msg_type \in {SAMPLE_DEF, MODEL_DEF}

\* MessageType.to_json that keeps the declared kind as the tag of a descriptor
message_to_json_declared_tag(sc, sv, msg_type, value) ==
    IF value = NoneV THEN [tag |-> msg_type, js |-> NoneV]
    ELSE IF isSlotDescriptor(value)
         THEN [tag |-> msg_type, js |-> slot_to_json(sc, sv, value)]
         ELSE IF msg_type = DATAFRAME_DEF
              THEN [tag |-> msg_type, js |-> [dfId |-> value.id]]
              ELSE [tag |-> msg_type, js |-> serializer_to_json(value)]

\* MessageType.to_json(value): the pair [returned_msg_type, js]
message_to_json(sc, sv, msg_type, value) ==
    IF value = NoneV THEN [tag |-> msg_type, js |-> NoneV]
    ELSE IF isSlotDescriptor(value)
         THEN [tag |-> STAGE_OUTPUT_DEF, js |-> slot_to_json(sc, sv, value)]
         ELSE IF msg_type = DATAFRAME_DEF
              THEN [tag |-> msg_type, js |-> [dfId |-> value.id]]
              ELSE [tag |-> msg_type, js |-> serializer_to_json(value)]

\* the input slots with a value that is not None, the name slot among them
bound_inputs_with_name(sc, sv, s) ==
    {i \in 1 .. Len(get_slots(sc[s], TRUE)) :
       get_input(sv, s, slot_attr(sc, s, get_slots(sc[s], TRUE)[i].name), NoneV) # NoneV}

\* the input slots Stage.to_json serializes: not the name slot, value not None
bound_inputs(sc, sv, s) ==
    {i \in 1 .. Len(get_slots(sc[s], TRUE)) :
       /\ get_slots(sc[s], TRUE)[i].name # "name"
       /\ get_input(sv, s, slot_attr(sc, s, get_slots(sc[s], TRUE)[i].name), NoneV) # NoneV}

\* Stage.to_json
stage_to_json(sc, sv, s) ==
    LET ss == get_slots(sc[s], TRUE)
        idx == bound_inputs(sc, sv, s)
        last(key) == CHOOSE i \in idx :
                       /\ ss[i].server_name = key
                       /\ \A j \in idx : ss[j].server_name = key => j <= i
    IN [name |-> get_name(sv, s),
        stageClass |-> sc[s],
        inputs |-> [key \in {ss[i].server_name : i \in idx} |->
                      message_to_json(sc, sv, ss[last(key)].message_type,
                                      get_input(sv, s, slot_attr(sc, s, ss[last(key)].name),
                                                NoneV))],
        outputs |-> EmptyDict]

\* Stage.to_json raises
stage_to_json_raises(sc, sv, s) ==
    \E i \in bound_inputs(sc, sv, s) :
       message_to_json_raises(sc, get_slots(sc[s], TRUE)[i].message_type,
                              get_input(sv, s, slot_attr(sc, s, get_slots(sc[s], TRUE)[i].name),
                                        NoneV))

\* Pipeline.to_json
pipeline_to_json(sc, sv, st, pid) ==
    [id |-> pid, stages |-> [i \in 1 .. Len(st) |-> stage_to_json(sc, sv, st[i])]]

\* stage.to_json()
ToJson(s) ==
    /\ call.op = "idle"
    /\ s \in built
    /\ call' = [op |-> "to_json", stage |-> s,
                raised |-> stage_to_json_raises(stage_class, slot_values, s),
                ret |-> IF stage_to_json_raises(stage_class, slot_values, s) THEN NoneV
                        ELSE stage_to_json(stage_class, slot_values, s)]
    /\ UNCHANGED << stage_class, slot_values, stages, id, descriptors, slot_desc_attr >>

(***************************************************************************)
(* Pipeline.run.  outputs is [single, items]: single is TRUE when the      *)
(* caller passed one object instead of a list or tuple.  feeds is the      *)
(* sequence of the dict's <<key, value>> items in iteration order.  engine *)
(* is what post_and_wait does with the request: it raises, or returns a    *)
(* response [pipelineId, results] with results a list of <<key, value>>.   *)
(***************************************************************************)
\* the translation of a Placeholder to its output slot
run_slot_desc_output_val(sc, o) ==
    IF o.k = "Stage" /\ isPlaceholderClass(sc[o.id])
    THEN slot_attr(sc, o.id, "output_val") ELSE o

\* the descriptor run uses for an element of outputs or a key of feeds
run_slot_desc(sc, o) ==
    IF o.k = "Stage" /\ isPlaceholderClass(sc[o.id])
    THEN slot_attr(sc, o.id, "input_val") ELSE o

\* the loop over outputs raises
run_outputs_raise(sc, items) ==
    \E i \in 1 .. Len(items) : ~isSlotDescriptor(run_slot_desc(sc, items[i]))

\* output_slots
run_output_slots(sc, sv, items) ==
    [i \in 1 .. Len(items) |-> slot_to_json(sc, sv, run_slot_desc(sc, items[i]))]

\* one iteration of the loop over feeds raises
feed_raises(sc, entry) ==
    LET d == run_slot_desc(sc, entry[1])
    IN \/ ~isSlotDescriptor(d)
       \/ is_valid_raises(message_type(sc, d), entry[2])
       \/ ~is_valid(sc, message_type(sc, d), entry[2])
       \/ message_to_json_raises(sc, message_type(sc, d), entry[2])

\* the loop over feeds raises
run_feeds_raise(sc, feeds) == \E i \in 1 .. Len(feeds) : feed_raises(sc, feeds[i])

\* feeds_json
RECURSIVE run_feeds_json(_, _, _)
run_feeds_json(sc, sv, feeds) ==
    IF feeds = << >> THEN EmptyDict
    ELSE LET n == Len(feeds)
             d == run_slot_desc(sc, feeds[n][1])
         IN DictSet(run_feeds_json(sc, sv, SubSeq(feeds, 1, n - 1)),
                    full_server_name(sc, sv, d),
                    message_to_json(sc, sv, message_type(sc, d), feeds[n][2]))

\* run without the validation of feeds
run_raises_early_unvalidated(sc, sv, st, outputs, feeds) ==
    \/ run_outputs_raise(sc, outputs.items)
    \/ \E i \in 1 .. Len(feeds) : ~isSlotDescriptor(run_slot_desc(sc, feeds[i][1]))
    \/ \E i \in 1 .. Len(st) : stage_to_json_raises(sc, sv, st[i])

\* run raises before post_and_wait
run_raises_early(sc, sv, st, outputs, feeds) ==
    \/ run_outputs_raise(sc, outputs.items)
    \/ run_feeds_raise(sc, feeds)
    \/ \E i \in 1 .. Len(st) : stage_to_json_raises(sc, sv, st[i])

\* the slot values were every feed bound to its slot with set_input
RECURSIVE feeds_bound(_, _, _)
feeds_bound(sc, sv, feeds) ==
    IF feeds = << >> THEN sv
    ELSE LET n == Len(feeds)
             d == run_slot_desc(sc, feeds[n][1])
         IN [feeds_bound(sc, sv, SubSeq(feeds, 1, n - 1)) EXCEPT
               ![d.parent] = DictSet(@, d.name, feeds[n][2])]

\* the request when the feeds are bound to the stages before they are
\* serialized
run_request_feeding_stages(sc, sv, st, pid, outputs, feeds) ==
    [uri |-> "pipeline/run",
     pipeline |-> [pipeline_to_json(sc, feeds_bound(sc, sv, feeds), st, pid)
                     EXCEPT !.id = NoneV],
     feeds |-> run_feeds_json(sc, sv, feeds),
     outputs |-> run_output_slots(sc, sv, outputs.items),
     timeout |-> -1]

\* the request when ppl_json['id'] is left as Pipeline.to_json made it
run_request_keeping_id(sc, sv, st, pid, outputs, feeds) ==
    [uri |-> "pipeline/run",
     pipeline |-> pipeline_to_json(sc, sv, st, pid),
     feeds |-> run_feeds_json(sc, sv, feeds),
     outputs |-> run_output_slots(sc, sv, outputs.items),
     timeout |-> -1]

\* data, the request of 'pipeline/run'
run_request(sc, sv, st, pid, outputs, feeds) ==
    [uri |-> "pipeline/run",
     pipeline |-> [pipeline_to_json(sc, sv, st, pid) EXCEPT !.id = NoneV],
     feeds |-> run_feeds_json(sc, sv, feeds),
     outputs |-> run_output_slots(sc, sv, outputs.items),
     timeout |-> -1]

\* next((v for k, v in results if k == out_slot), None)
find_result(results, out_slot) ==
    IF \E j \in 1 .. Len(results) : results[j][1] = out_slot
    THEN results[CHOOSE j \in 1 .. Len(results) :
                   /\ results[j][1] = out_slot
                   /\ \A m \in 1 .. j - 1 : results[m][1] # out_slot][2]
    ELSE NoneV

\* MessageType.from_json raises NotImplementedError
from_json_raises(js_data) == js_data.tag \notin {VALUE_DEF, DATAFRAME_DEF, MODEL_DEF}

\* MessageType.from_json
from_json(js_data) ==
    IF js_data.tag = VALUE_DEF THEN serializer_from_json(js_data.js)
    ELSE [k |-> "fetched", tag |-> js_data.tag, js |-> js_data.js]

\* parsing the results without the test of the length of the result list
parse_raises_without_length(results, output_slots) ==
    \E i \in 1 .. Len(output_slots) :
       \/ find_result(results, output_slots[i]) = NoneV
       \/ from_json_raises(find_result(results, output_slots[i]))

\* parsing the results raises
parse_raises(results, output_slots) ==
    \/ Len(results) # Len(output_slots)
    \/ \E i \in 1 .. Len(output_slots) :
         \/ find_result(results, output_slots[i]) = NoneV
         \/ from_json_raises(find_result(results, output_slots[i]))

\* the results taken by their position in the response
parsed_results_by_position(results, output_slots) ==
    [i \in 1 .. Len(output_slots) |-> from_json(results[i][2])]

\* parsed_results
parsed_results(results, output_slots) ==
    [i \in 1 .. Len(output_slots) |-> from_json(find_result(results, output_slots[i]))]

\* the request of _TagHelper.get that MessageType.from_json makes for the
\* payload of a Dataframe or Model result
get_request(js_data) ==
    IF js_data.tag = DATAFRAME_DEF THEN [uri |-> "df/get", data |-> js_data.js.dfId]
    ELSE [uri |-> "model/get", data |-> js_data.js.modelId]

\* one iteration of the loop that parses the results, entered in the state
\* g = [raised, gets] with the result r found for the output slot: from_json
\* sends a get request for a Dataframe or Model result, which raises when the
\* engine has answered `answered` of them
parse_step(g, r, answered) ==
    IF g.raised THEN g
    ELSE IF r = NoneV \/ from_json_raises(r) THEN [raised |-> TRUE, gets |-> g.gets]
         ELSE IF r.tag \in {DATAFRAME_DEF, MODEL_DEF}
              THEN [raised |-> Len(g.gets) >= answered,
                    gets |-> Append(g.gets, get_request(r))]
              ELSE g

\* the loop that parses the results: whether a get request failed or the loop
\* raised before, and the get requests sent
RECURSIVE parse_gets(_, _, _)
parse_gets(results, output_slots, answered) ==
    IF output_slots = << >> THEN [raised |-> FALSE, gets |-> << >>]
    ELSE parse_step(parse_gets(results, SubSeq(output_slots, 1, Len(output_slots) - 1),
                               answered),
                    find_result(results, output_slots[Len(output_slots)]), answered)

\* the get requests of a run: none when the length test fails
run_gets(engine, output_slots) ==
    IF Len(engine.results) # Len(output_slots) THEN [raised |-> FALSE, gets |-> << >>]
    ELSE parse_gets(engine.results, output_slots, engine.answered)

\* run_parse when self._id is assigned only after the results were parsed
run_parse_id_on_success(pid, single_output, data, engine, g) ==
    IF parse_raises(engine.results, data.outputs) \/ g.raised
    THEN [raised |-> TRUE, sent |-> << data >> \o g.gets, id |-> pid, ret |-> NoneV]
    ELSE [raised |-> FALSE, sent |-> << data >> \o g.gets, id |-> engine.pipelineId,
          ret |-> IF single_output THEN parsed_results(engine.results, data.outputs)[1]
                  ELSE [k |-> "tuple",
                        items |-> parsed_results(engine.results, data.outputs)]]

\* run_parse when the result is unwrapped because it has one element
run_parse_unwrapping_one(pid, single_output, data, engine, g) ==
    IF parse_raises(engine.results, data.outputs) \/ g.raised
    THEN [raised |-> TRUE, sent |-> << data >> \o g.gets, id |-> engine.pipelineId,
          ret |-> NoneV]
    ELSE [raised |-> FALSE, sent |-> << data >> \o g.gets, id |-> engine.pipelineId,
          ret |-> IF Len(data.outputs) = 1
                  THEN parsed_results(engine.results, data.outputs)[1]
                  ELSE [k |-> "tuple",
                        items |-> parsed_results(engine.results, data.outputs)]]

\* Pipeline.run from the response of the engine on, with the outcome g of the
\* get requests of from_json: whether it raised, the requests sent, the
\* pipeline id after the call and the returned value
run_parse(pid, single_output, data, engine, g) ==
    IF parse_raises(engine.results, data.outputs) \/ g.raised
    THEN [raised |-> TRUE, sent |-> << data >> \o g.gets, id |-> engine.pipelineId,
          ret |-> NoneV]
    ELSE [raised |-> FALSE, sent |-> << data >> \o g.gets, id |-> engine.pipelineId,
          ret |-> IF single_output THEN parsed_results(engine.results, data.outputs)[1]
                  ELSE [k |-> "tuple",
                        items |-> parsed_results(engine.results, data.outputs)]]

\* run_send when a failed request makes the pipeline forget its id
run_send_clearing_id(pid, single_output, data, engine) ==
    IF engine.k = "error"
    THEN [raised |-> TRUE, sent |-> << data >>, id |-> NoneV, ret |-> NoneV]
    ELSE run_parse(pid, single_output, data, engine, run_gets(engine, data.outputs))

\* Pipeline.run from post_and_wait on, for the request data: whether it raised,
\* the requests sent, the pipeline id after the call and the returned value
run_send(pid, single_output, data, engine) ==
    IF engine.k = "error"
    THEN [raised |-> TRUE, sent |-> << data >>, id |-> pid, ret |-> NoneV]
    ELSE run_parse(pid, single_output, data, engine, run_gets(engine, data.outputs))

\* MessageType(msg_type).is_valid(value)
IsValid(msg_type, value) ==
    /\ call.op = "idle"
    /\ call' = [op |-> "is_valid", msg_type |-> msg_type, value |-> value,
                raised |-> is_valid_raises(msg_type, value),
                ret |-> IF is_valid_raises(msg_type, value) THEN NoneV
                        ELSE is_valid(stage_class, msg_type, value)]
    /\ UNCHANGED << stage_class, slot_values, stages, id, descriptors, slot_desc_attr >>

\* MessageType(msg_type).to_json(value)
MessageToJson(msg_type, value) ==
    /\ call.op = "idle"
    /\ call' = [op |-> "message_to_json", msg_type |-> msg_type, value |-> value,
                raised |-> message_to_json_raises(stage_class, msg_type, value),
                ret |-> IF message_to_json_raises(stage_class, msg_type, value) THEN NoneV
                        ELSE message_to_json(stage_class, slot_values, msg_type, value)]
    /\ UNCHANGED << stage_class, slot_values, stages, id, descriptors, slot_desc_attr >>

\* MessageType.from_json(js_data) for a pair js_data = [tag, js]
MessageFromJson(js_data) ==
    /\ call.op = "idle"
    /\ call' = [op |-> "message_from_json", js_data |-> js_data,
                raised |-> from_json_raises(js_data),
                ret |-> IF from_json_raises(js_data) THEN NoneV ELSE from_json(js_data)]
    /\ UNCHANGED << stage_class, slot_values, stages, id, descriptors, slot_desc_attr >>

(***************************************************************************)
(* Session.read_local, read_csv and read_json (core/session.py).  options  *)
(* is None or an object, of which the class matters.  engine is what the   *)
(* client does with the upload and with the request 'storage/read'.        *)
(***************************************************************************)
valid_fmts == << "csv", "json", "parquet", "orc", "text" >>

\* fmt.lower()
fmt_lower(fmt) ==
    CASE fmt = "CSV" -> "csv"
      [] fmt = "Json" -> "json"
      [] OTHER -> fmt

\* isinstance(options, cls) for the classes of options
isinstance_options(options, cls) == options.k = cls

\* Session._verify_data_format raises ValueError
verify_data_format_raises(fmt, options) ==
    \/ fmt_lower(fmt) \notin elems(valid_fmts)
    \/ /\ options # NoneV
       /\ IF fmt_lower(fmt) = valid_fmts[1]
          THEN ~isinstance_options(options, "CsvReadOptions")
          ELSE IF fmt_lower(fmt) = valid_fmts[2]
               THEN ~isinstance_options(options, "JsonReadOptions")
               ELSE IF fmt_lower(fmt) = valid_fmts[3]
                    THEN ~isinstance_options(options, "ParquetReadOptions")
                    ELSE TRUE

\* Session._verify_data_format, where it returns: the JSON of the options
verify_data_format(fmt, options) ==
    IF options # NoneV THEN [k |-> "options_json", of |-> options] ELSE EmptyDict

\* the request of Session._read for an uploaded file
read_request(server_path, fmt, options_dict) ==
    [uri |-> "storage/read",
     data |-> [localFs |-> [path |-> server_path, format |-> fmt],
               readOptions |-> options_dict]]

\* read_local that uploads the file before it verifies the format
read_local_upload_first(path, fmt, options, engine) ==
    IF engine.k = "upload_error" \/ verify_data_format_raises(fmt, options)
    THEN [raised |-> TRUE,
          error |-> IF engine.k = "upload_error" THEN "engine" ELSE "ValueError",
          sent |-> << [uri |-> "upload", data |-> path] >>, ret |-> NoneV]
    ELSE [raised |-> engine.k = "read_error",
          error |-> IF engine.k = "read_error" THEN "engine" ELSE "none",
          sent |-> << [uri |-> "upload", data |-> path],
                      read_request(engine.path, fmt, verify_data_format(fmt, options)) >>,
          ret |-> IF engine.k = "read_error" THEN NoneV ELSE DataframeV(engine.id)]

\* Session.read_local(path, fmt, options): whether it raised and what, the
\* requests sent and the Dataframe returned
read_local(path, fmt, options, engine) ==
    IF verify_data_format_raises(fmt, options)
    THEN [raised |-> TRUE, error |-> "ValueError", sent |-> << >>, ret |-> NoneV]
    ELSE IF engine.k = "upload_error"
         THEN [raised |-> TRUE, error |-> "engine",
               sent |-> << [uri |-> "upload", data |-> path] >>, ret |-> NoneV]
         ELSE [raised |-> engine.k = "read_error",
               error |-> IF engine.k = "read_error" THEN "engine" ELSE "none",
               sent |-> << [uri |-> "upload", data |-> path],
                           read_request(engine.path, fmt,
                                        verify_data_format(fmt, options)) >>,
               ret |-> IF engine.k = "read_error" THEN NoneV ELSE DataframeV(engine.id)]

\* what the client does with the upload and the read request of one call
ReadOutcomes ==
    {[k |-> "upload_error"]}
    \cup {[k |-> "read_error", path |-> "/srv/f"]}
    \cup {[k |-> "ok", path |-> "/srv/f", id |-> i] : i \in 1 .. NIds}

\* the outcomes that differ for a call: one when nothing is sent
ReadOutcomesOf(fmt, options) ==
    IF verify_data_format_raises(fmt, options) THEN {[k |-> "none"]} ELSE ReadOutcomes

\* session.read_local(path, fmt, options)
ReadLocal(fmt, options) ==
    /\ call.op = "idle"
    /\ \E engine \in ReadOutcomesOf(fmt, options) :
         \E r \in {read_local("f", fmt, options, engine)} :
            call' = [op |-> "read_local", fmt |-> fmt, options |-> options,
                     engine |-> engine, raised |-> r.raised, error |-> r.error,
                     sent |-> r.sent, ret |-> r.ret]
    /\ UNCHANGED << stage_class, slot_values, stages, id, descriptors, slot_desc_attr >>

\* session.read_csv(path, options)
ReadCsv(options) ==
    /\ call.op = "idle"
    /\ \E engine \in ReadOutcomesOf("csv", options) :
         \E r \in {read_local("f", "csv", options, engine)} :
            call' = [op |-> "read_csv", fmt |-> "csv", options |-> options,
                     engine |-> engine, raised |-> r.raised, error |-> r.error,
                     sent |-> r.sent, ret |-> r.ret]
    /\ UNCHANGED << stage_class, slot_values, stages, id, descriptors, slot_desc_attr >>

\* session.read_json(path, options)
ReadJson(options) ==
    /\ call.op = "idle"
    /\ \E engine \in ReadOutcomesOf("json", options) :
         \E r \in {read_local("f", "json", options, engine)} :
            call' = [op |-> "read_json", fmt |-> "json", options |-> options,
                     engine |-> engine, raised |-> r.raised, error |-> r.error,
                     sent |-> r.sent, ret |-> r.ret]
    /\ UNCHANGED << stage_class, slot_values, stages, id, descriptors, slot_desc_attr >>

(***************************************************************************)
(* The arguments callers pass.                                             *)
(***************************************************************************)
\* the names of the slots declared for class c, in both directions
slot_names(c) ==
    UNION {{get_slots(c, io)[i].name : i \in 1 .. Len(get_slots(c, io))} : io \in BOOLEAN}

\* the descriptors a caller can obtain as attributes of the built stages
Descriptors ==
    UNION {{slot_attr(stage_class, s, n) : n \in slot_names(stage_class[s]) \ {"name"}} :
             s \in built}

\* values a caller binds to input slots
BoundValues == {DataframeV(1), ListV(1)} \cup Descriptors

\* what a caller passes to set_input and get_input as the slot: a descriptor of
\* a built stage, the name slot included, or something that is no descriptor
SlotArgs == Descriptors \cup {name_attr(s) : s \in built} \cup {TextV("x")}

\* values a caller passes to set_input
InputValues == {NoneV} \cup BoundValues

\* the base lists of a class definition: at most two different mixins
ClassBases ==
    {<< >>} \cup {<< b >> : b \in MixinClasses}
    \cup {bs \in [1 .. 2 -> MixinClasses] : bs[1] # bs[2]}

\* the slots the decorators of a class definition declare
SlotDecls ==
    {Slot(n, VALUE_DEF, io, n) : n \in {"input_df", "labels"}, io \in BOOLEAN}

\* the decorator stacks of a class definition: at most two decorators
ClassDecls == UNION {[1 .. m -> SlotDecls] : m \in 0 .. 2}

\* the attribute names a caller reads from a stage
AttrNames == {"name", "input_df", "output_df", "col_names", "input_val", "output_val"}

\* what a caller asks a pipeline for: a stage object, a name, or the
\* descriptor stage.name
LookupItems ==
    {StageV(s) : s \in built} \cup {TextV(nm) : nm \in ExplicitNames}
    \cup {name_attr(s) : s \in built}

\* the keyword arguments of the pipeline_api constructor of class c
Kwargs(c) ==
    IF c = "Drop"
    THEN {<< <<"input_df", df>>, <<"col_names", ListV(1)>> >> :
            df \in {DataframeV(1)} \cup {StageV(s) : s \in built} \cup Descriptors}
    ELSE {<< >>}

NameArgs == {NoneV} \cup {TextV(nm) : nm \in ExplicitNames}

\* the objects a caller passes to run as outputs and as keys of feeds
RunItems ==
    {d \in Descriptors : message_type(stage_class, d) = DATAFRAME_DEF}
    \cup {StageV(s) : s \in built}

\* values a caller feeds
FeedValues == {DataframeV(1), ModelV(1)}

\* the kinds of MessageType.__all_defs
MessageKinds ==
    {VALUE_DEF, STAGE_OUTPUT_DEF, DATAFRAME_DEF, SAMPLE_DEF, MODEL_DEF, COLUMN_DEF}

\* values a caller hands to MessageType.is_valid and MessageType.to_json
MessageValues ==
    {NoneV, [k |-> "int", v |-> 1], TextV("x"), ListV(1), DataframeV(1), ModelV(1),
     [k |-> "Column", v |-> 1], [k |-> "DataSample", v |-> 1]}
    \cup Descriptors

\* the fmt arguments of read_local
ReadFormats == {"csv", "json", "parquet", "orc", "text", "CSV", "Json", "avro", ""}

\* the options arguments: None, an object of one of the three classes of
\* options, of their base class, or a dict
ReadOptionsArgs ==
    {NoneV, [k |-> "CsvReadOptions"], [k |-> "JsonReadOptions"],
     [k |-> "ParquetReadOptions"], [k |-> "ReadOptions"], [k |-> "dict"]}

\* the `outputs` arguments of at most n elements
RunOutputs(n) ==
    {[single |-> TRUE, items |-> << o >>] : o \in IF n >= 1 THEN RunItems ELSE {}}
    \cup {[single |-> FALSE, items |-> t] : t \in UNION {[1 .. m -> RunItems] : m \in 0 .. n}}

\* the `feeds` arguments of at most n entries (a dict: the keys differ)
RunFeeds(n) ==
    {f \in UNION {[1 .. m -> RunItems \X FeedValues] : m \in 0 .. n} :
       \A i, j \in 1 .. Len(f) : i # j => f[i][1] # f[j][1]}

\* a result key that belongs to no requested output
ForeignKey == [stageName |-> TextV("other"), outputName |-> "outputDf"]

\* the value of the j-th entry of a result list
ResultValue(j) == [tag |-> VALUE_DEF, js |-> serializer_to_json([k |-> "int", v |-> j])]

\* a pipeline id of the engine
IdV(i) == TextV("id" \o ToString(i))

\* what the engine can answer to a request for output_slots when the values
\* of its result list are values[1], values[2], ... and it answers `answered`
\* of the get requests that follow, for answered in gets
EngineAnswers(output_slots, values, gets) ==
    {[k |-> "error"]}
    \cup {[k |-> "ok", pipelineId |-> IdV(i),
           results |-> [j \in 1 .. Len(keys) |-> << keys[j], values[j] >>],
           answered |-> a] :
            i \in 1 .. NIds,
            keys \in UNION {[1 .. m -> elems(output_slots) \cup {ForeignKey}] :
                              m \in 0 .. MaxResults},
            a \in gets}

\* the answers of an engine whose results are all values
EngineOutcomes(output_slots) ==
    EngineAnswers(output_slots, [j \in 1 .. MaxResults |-> ResultValue(j)], {MaxResults})

\* the tagged values an engine puts in a result list, one of each kind a slot
\* can have
TaggedResults ==
    {ResultValue(1),
     [tag |-> DATAFRAME_DEF, js |-> [dfId |-> "df1"]],
     [tag |-> MODEL_DEF, js |-> [modelId |-> "m1"]],
     [tag |-> COLUMN_DEF, js |-> serializer_to_json([k |-> "Column", v |-> 1])]}

\* the answers of an engine whose results have any of these kinds and that
\* may fail any of the get requests
FetchOutcomes(output_slots) ==
    UNION {EngineAnswers(output_slots, values, 0 .. MaxResults) :
             values \in [1 .. MaxResults -> TaggedResults]}

\* the pairs [tag, js] handed to MessageType.from_json: one of each kind
WireMessages ==
    TaggedResults
    \cup {[tag |-> STAGE_OUTPUT_DEF,
           js |-> [stageName |-> TextV("x"), outputName |-> "outputDf"]],
          [tag |-> SAMPLE_DEF, js |-> serializer_to_json([k |-> "DataSample", v |-> 1])]}

\* pipeline.run(outputs, feeds): the whole call, with the engine's answer to
\* the request when one is sent: of an engine whose results are values, or,
\* when fetching, of one whose results have every kind
RunEngine(p, outputs, feeds, fetching) ==
    /\ call.op = "idle"
    /\ IF run_raises_early(stage_class, slot_values, stages[p], outputs, feeds)
       THEN /\ id' = id
            /\ call' = [op |-> "run", pipeline |-> p, outputs |-> outputs, feeds |-> feeds,
                        engine |-> [k |-> "none"], raised |-> TRUE, sent |-> << >>,
                        ret |-> NoneV]
       ELSE LET data == run_request(stage_class, slot_values, stages[p], id[p],
                                    outputs, feeds)
            IN \E engine \in IF fetching THEN FetchOutcomes(data.outputs)
                                         ELSE EngineOutcomes(data.outputs) :
                 LET r == run_send(id[p], outputs.single, data, engine)
                 IN /\ id' = [id EXCEPT ![p] = r.id]
                    /\ call' = [op |-> "run", pipeline |-> p, outputs |-> outputs,
                                feeds |-> feeds, engine |-> engine, raised |-> r.raised,
                                sent |-> r.sent, ret |-> r.ret]
    /\ UNCHANGED << stage_class, slot_values, stages, descriptors, slot_desc_attr >>

\* pipeline.run(outputs, feeds) against an engine whose results are values
Run(p, outputs, feeds) == RunEngine(p, outputs, feeds, FALSE)

\* the call is over: the caller has its outcome and goes on
Return ==
    /\ call.op # "idle"
    /\ call' = [op |-> "idle"]
    /\ UNCHANGED << stage_class, slot_values, stages, id, descriptors, slot_desc_attr >>

Init ==
    /\ stage_class = [s \in StageIds |-> "unbuilt"]
    /\ slot_values = [s \in StageIds |-> EmptyDict]
    /\ stages = [p \in AllPipelines |-> << >>]
    /\ id = [p \in AllPipelines |-> NoneV]
    /\ call = [op |-> "idle"]
    /\ descriptors = << >>
    /\ slot_desc_attr = [s \in StageIds |-> EmptyDict]

\* A call starts when the caller has taken the outcome of the one before.
Next ==
    \/ call.op = "idle" /\ \E c \in Classes : NewStage(c)
    \/ call.op = "idle" /\ \E s \in StageIds, nm \in ExplicitNames : SetName(s, TextV(nm))
    \/ call.op = "idle" /\ \E p \in Pipelines, s \in StageIds : Add(p, s)
    \/ call.op = "idle" /\ \E p \in Pipelines, c \in Classes, nm \in NameArgs :
                             \E kw \in Kwargs(c) : CreateStage(p, c, nm, kw)
    \/ call.op = "idle" /\ \E p \in Pipelines, item \in LookupItems \ {name_attr(s) : s \in built} :
                             Contains(p, item)
    \/ call.op = "idle" /\ \E p \in Pipelines, item \in LookupItems : GetItem(p, item)
    \/ Return

Spec == Init /\ [][Next]_vars

\* graphs built with the pipeline_api constructors, and run
NextRun ==
    \/ call.op = "idle" /\ \E p \in Pipelines, c \in Classes, nm \in NameArgs :
                             \E kw \in Kwargs(c) : CreateStage(p, c, nm, kw)
    \/ call.op = "idle" /\ \E p \in Pipelines, n \in 0 .. MaxRunArgs :
                             \E outputs \in RunOutputs(n), feeds \in RunFeeds(MaxRunArgs - n) :
                                Run(p, outputs, feeds)
    \/ Return

SpecRun == Init /\ [][NextRun]_vars

\* stages wired by hand with set_input, read back and serialized
NextWire ==
    \/ call.op = "idle" /\ \E c \in StageClasses \ {"DataframePlaceholder"} : NewStage(c)
    \/ call.op = "idle" /\ \E s \in StageIds, d \in SlotArgs, v \in InputValues :
                             SetInput(s, d, v)
    \/ call.op = "idle" /\ \E s \in StageIds, d \in SlotArgs : GetInput(s, d)
    \/ call.op = "idle" /\ \E s \in StageIds : ToJson(s)
    \/ Return

SpecWire == Init /\ [][NextWire]_vars

\* graphs built with constructors that leave the naming to the pipeline, then
\* renamed with set_name, and run
NextRename ==
    \/ call.op = "idle" /\ \E p \in Pipelines, c \in Classes :
                             \E kw \in Kwargs(c) : CreateStage(p, c, NoneV, kw)
    \/ call.op = "idle" /\ \E s \in StageIds, nm \in ExplicitNames : SetName(s, TextV(nm))
    \/ call.op = "idle" /\ \E p \in Pipelines, n \in 0 .. MaxRunArgs :
                             \E outputs \in RunOutputs(n), feeds \in RunFeeds(MaxRunArgs - n) :
                                Run(p, outputs, feeds)
    \/ Return

SpecRename == Init /\ [][NextRename]_vars

\* stage classes defined from mixins and slot decorators
NextClass ==
    \/ call.op = "idle" /\ \E bases \in ClassBases, decls \in ClassDecls :
                             DefineClass(bases, decls)
    \/ Return

SpecClass == Init /\ [][NextClass]_vars

\* stages whose slot attributes are read again and again
NextAttr ==
    \/ call.op = "idle" /\ \E c \in StageClasses : NewStage(c)
    \/ call.op = "idle" /\ \E s \in StageIds, n \in AttrNames : GetAttr(s, n)
    \/ Return

SpecAttr == Init /\ [][NextAttr]_vars

\* placeholders made by the constructor, and runs whose results are of any
\* kind
NextFetch ==
    \/ call.op = "idle" /\ \E p \in Pipelines :
                             CreateStage(p, "DataframePlaceholder", NoneV, << >>)
    \/ call.op = "idle" /\ \E p \in Pipelines, outputs \in RunOutputs(MaxRunArgs) :
                             RunEngine(p, outputs, << >>, TRUE)
    \/ Return

SpecFetch == Init /\ [][NextFetch]_vars

\* values encoded and wire messages decoded by MessageType
NextMessage ==
    \/ call.op = "idle" /\ \E c \in StageClasses : NewStage(c)
    \/ call.op = "idle" /\ \E s \in StageIds, nm \in ExplicitNames : SetName(s, TextV(nm))
    \/ call.op = "idle" /\ \E msg_type \in MessageKinds, value \in MessageValues :
                             IsValid(msg_type, value)
    \/ call.op = "idle" /\ \E msg_type \in MessageKinds, value \in MessageValues :
                             MessageToJson(msg_type, value)
    \/ call.op = "idle" /\ \E js_data \in WireMessages : MessageFromJson(js_data)
    \/ Return

SpecMessage == Init /\ [][NextMessage]_vars

\* files read into Dataframes
NextRead ==
    \/ call.op = "idle" /\ \E fmt \in ReadFormats, options \in ReadOptionsArgs :
                             ReadLocal(fmt, options)
    \/ call.op = "idle" /\ \E options \in ReadOptionsArgs : ReadCsv(options)
    \/ call.op = "idle" /\ \E options \in ReadOptionsArgs : ReadJson(options)
    \/ Return

SpecRead == Init /\ [][NextRead]_vars

\* stages added to either of two pipelines, by add and by the constructors
\* called while one or the other is the default pipeline
NextShare ==
    \/ call.op = "idle" /\ \E c \in Classes : NewStage(c)
    \/ call.op = "idle" /\ \E p \in AllPipelines, s \in StageIds : Add(p, s)
    \/ call.op = "idle" /\ \E p \in AllPipelines, c \in Classes :
                             \E kw \in Kwargs(c) : CreateStage(p, c, NoneV, kw)
    \/ Return

SpecShare == Init /\ [][NextShare]_vars

\* stages built by their classes, some of them added to the pipeline, and the
\* pipeline run with any of their slots as outputs and as keys of feeds
NextDetached ==
    \/ call.op = "idle" /\ \E c \in Classes : NewStage(c)
    \/ call.op = "idle" /\ \E p \in Pipelines, s \in StageIds : Add(p, s)
    \/ call.op = "idle" /\ \E p \in Pipelines, n \in 0 .. MaxRunArgs :
                             \E outputs \in RunOutputs(n), feeds \in RunFeeds(MaxRunArgs - n) :
                                Run(p, outputs, feeds)
    \/ Return

SpecDetached == Init /\ [][NextDetached]_vars

(***************************************************************************)
(* Claims about Pipeline.add and stage names.                              *)
(***************************************************************************)
\* some stage of the list st is currently named nm
name_used(sv, st, nm) == \E i \in 1 .. Len(st) : get_name(sv, st[i]) = nm

\* C2: in every reachable state no two stages contained in the same Pipeline
\* have the same name.
C2_UniqueStageNames ==
    \A p \in Pipelines : \A i, j \in 1 .. Len(stages[p]) :
       i # j => get_name(slot_values, stages[p][i]) # get_name(slot_values, stages[p][j])

\* C3: Pipeline.add of a stage that has no name gives it the name
\* "<lowercased class name>_<n>" for the smallest n >= 0 such that no stage
\* already in the pipeline has that name.
C3_AutoNameSmallestUnused ==
    [][(/\ call'.op = "add"
        /\ call'.stage \notin elems(stages[call'.pipeline])
        /\ get_name(slot_values, call'.stage) = NoneV)
       => \E n \in 0 .. Len(stages[call'.pipeline]) :
            /\ get_name(slot_values', call'.stage) = format_name(stage_class[call'.stage], n)
            /\ ~name_used(slot_values, stages[call'.pipeline],
                          format_name(stage_class[call'.stage], n))
            /\ \A m \in 0 .. n - 1 :
                 name_used(slot_values, stages[call'.pipeline],
                           format_name(stage_class[call'.stage], m))]_vars

\* C4: Pipeline.add of a stage that is not in the pipeline and whose explicit
\* name is the name of a stage already in the pipeline raises, and the
\* pipeline's stage list is the same after the call as before it.
C4_AddDuplicateNameRaises ==
    [][(/\ call'.op = "add"
        /\ call'.stage \notin elems(stages[call'.pipeline])
        /\ get_name(slot_values, call'.stage) # NoneV
        /\ name_used(slot_values, stages[call'.pipeline],
                     get_name(slot_values, call'.stage)))
       => call'.raised /\ stages' = stages]_vars

\* C4 happens: an add raised because of a name that is already taken
C4_Witness ==
    /\ call.op = "add"
    /\ call.raised
    /\ call.stage \notin elems(stages[call.pipeline])
    /\ name_used(slot_values, stages[call.pipeline], get_name(slot_values, call.stage))

run_key(i) ==
    slot_to_json(stage_class, slot_values, run_slot_desc(stage_class, call.outputs.items[i]))

\* the i-th value of what the call returned
ret_item(i) == IF call.outputs.single THEN call.ret ELSE call.ret.items[i]

\* C1: when run returns, element i of the returned values is the decoding of
\* the response entry whose key is the encoding of outputs[i] (the first such
\* entry), whatever the position of that entry in the result list.
C1_RunReturnsInRequestedOrder ==
    (call.op = "run" /\ ~call.raised) =>
       \A i \in 1 .. Len(call.outputs.items) :
          \E j \in 1 .. Len(call.engine.results) :
             /\ call.engine.results[j][1] = run_key(i)
             /\ \A m \in 1 .. j - 1 : call.engine.results[m][1] # run_key(i)
             /\ ret_item(i) = from_json(call.engine.results[j][2])

\* C1 happens: two outputs with different keys, answered in reversed order
C1_Witness ==
    /\ call.op = "run"
    /\ ~call.raised
    /\ Len(call.outputs.items) = 2
    /\ run_key(1) # run_key(2)
    /\ call.engine.results[1][1] = run_key(2)
    /\ call.engine.results[2][1] = run_key(1)

\* C6: the request of every run has pipeline.id null and, as pipeline.stages,
\* the serialization of every stage of the pipeline in insertion order, also
\* when an earlier run gave the pipeline an id.
C6_RunSendsWholePipeline ==
    (call.op = "run" /\ call.sent # << >>) =>
       LET req == call.sent[1]
           st == stages[call.pipeline]
       IN /\ req.pipeline.id = NoneV
          /\ Len(req.pipeline.stages) = Len(st)
          /\ \A i \in 1 .. Len(st) :
               /\ req.pipeline.stages[i].name = get_name(slot_values, st[i])
               /\ req.pipeline.stages[i] = stage_to_json(stage_class, slot_values, st[i])

\* C6 happens: a pipeline of two stages that has an id sends a request (the
\* engine fails it, so the id is the one of an earlier run)
C6_Witness ==
    /\ call.op = "run"
    /\ call.sent # << >>
    /\ call.engine.k = "error"
    /\ id[call.pipeline] # NoneV
    /\ Len(stages[call.pipeline]) = 2

\* the i-th entry of the feeds of the call has a value that is not valid for
\* the message type of its slot
invalid_feed(i) ==
    LET d == run_slot_desc(stage_class, call.feeds[i][1])
    IN /\ isSlotDescriptor(d)
       /\ ~is_valid(stage_class, message_type(stage_class, d), call.feeds[i][2])

\* C7: a run with a feed whose value fails is_valid for the message type of
\* its slot raises and sends no request.
C7_InvalidFeedRaisesBeforeRequest ==
    (call.op = "run" /\ \E i \in 1 .. Len(call.feeds) : invalid_feed(i))
       => call.raised /\ call.sent = << >>

\* C7 happens: a valid feed entry followed by an invalid one
C7_Witness ==
    /\ call.op = "run"
    /\ Len(call.feeds) = 2
    /\ ~invalid_feed(1)
    /\ invalid_feed(2)
    /\ call.raised
    /\ call.sent = << >>

\* C8: run raises without a request when an element of outputs is a
\* SlotDescriptor with is_input = true, and a Placeholder given as an output
\* is requested as its output slot.
C8_OutputsAreOutputSlots ==
    call.op = "run" =>
       \A i \in 1 .. Len(call.outputs.items) :
          LET o == call.outputs.items[i]
          IN /\ (isSlotDescriptor(o) /\ o.is_input) => (call.raised /\ call.sent = << >>)
             /\ (o.k = "Stage" /\ isPlaceholderClass(stage_class[o.id]) /\ call.sent # << >>)
                  => call.sent[1].outputs[i] =
                       slot_to_json(stage_class, slot_values,
                                    slot_attr(stage_class, o.id, "output_val"))

\* the engine's result list has no entry for the i-th requested output
missing_result(i) ==
    \A j \in 1 .. Len(call.engine.results) : call.engine.results[j][1] # run_key(i)

\* C9: when the engine's result list differs in length from the requested
\* outputs, or has no entry keyed by some requested output, run raises and
\* returns no values.
C9_IncompleteResultsRaise ==
    (/\ call.op = "run"
     /\ call.engine.k = "ok"
     /\ \/ Len(call.engine.results) # Len(call.outputs.items)
        \/ \E i \in 1 .. Len(call.outputs.items) : missing_result(i))
       => call.raised /\ call.ret = NoneV

\* C9 happens: two results for two outputs, but one output has no entry
C9_Witness ==
    /\ call.op = "run"
    /\ call.engine.k = "ok"
    /\ Len(call.outputs.items) = 2
    /\ Len(call.engine.results) = 2
    /\ \E i \in 1 .. 2 : missing_result(i)
    /\ call.raised

\* C10 as claimed: Pipeline.id stays null until a run returns normally, and
\* after a run that returns normally it is the pipelineId of the response.
C10_IdSetBySuccessfulRun ==
    [][\A p \in Pipelines :
         /\ (id[p] = NoneV /\ id'[p] # NoneV)
              => (call'.op = "run" /\ call'.pipeline = p /\ ~call'.raised)
         /\ (call'.op = "run" /\ call'.pipeline = p /\ ~call'.raised)
              => id'[p] = call'.engine.pipelineId]_vars

\* C10 amended: Pipeline.id changes only in a run whose request the engine
\* answers with a response, and after every such run -- whether it then
\* returns or raises while checking the results -- it is the pipelineId of
\* that response.
C10_IdSetByEveryResponse ==
    [][\A p \in Pipelines :
         /\ id'[p] # id[p]
              => (call'.op = "run" /\ call'.pipeline = p /\ call'.engine.k = "ok")
         /\ (call'.op = "run" /\ call'.pipeline = p /\ call'.engine.k = "ok")
              => id'[p] = call'.engine.pipelineId]_vars

\* C10 happens: a run raised on the results and the pipeline has the id of
\* that response
C10_Witness ==
    /\ call.op = "run"
    /\ call.raised
    /\ call.engine.k = "ok"
    /\ id[call.pipeline] = call.engine.pipelineId

\* C11: a run that returns gives the bare decoded value when outputs was passed
\* as one object, and a tuple with one element per requested output when
\* outputs was passed as a list or tuple of any length, 0 and 1 included.
C11_SingleOutputUnwrapped ==
    (call.op = "run" /\ ~call.raised) =>
       IF call.outputs.single
       THEN /\ call.ret.k # "tuple"
            /\ call.ret = from_json(find_result(call.engine.results, run_key(1)))
       ELSE /\ call.ret.k = "tuple"
            /\ Len(call.ret.items) = Len(call.outputs.items)

\* C11 happens: a list of one output returned a tuple of one element
C11_Witness ==
    /\ call.op = "run"
    /\ ~call.raised
    /\ ~call.outputs.single
    /\ Len(call.outputs.items) = 1
    /\ call.ret.k = "tuple"
    /\ Len(call.ret.items) = 1

(***************************************************************************)
(* Claims about the serialization of stages and the binding of inputs.     *)
(***************************************************************************)
\* the value bound to the input slot named n of stage s, None when unbound
bound_value(s, n) == DictGet(slot_values[s], n, NoneV)

\* the declared input slots of stage s other than the name slot
wire_inputs(s) ==
    {sl \in elems(get_slots(stage_class[s], TRUE)) : sl.name # "name"}

\* the declared output slot a descriptor d stands for
output_slot_of(d) ==
    CHOOSE sl \in elems(get_slots(stage_class[d.parent], FALSE)) : sl.name = d.name

\* C12: in the result of B.to_json an input bound to an output descriptor of a
\* stage A is the pair ["StageOutputDef", {stageName: A's name, outputName:
\* the output slot's wire name}] whatever the declared kind of the input slot
\* is, and an input bound to another non-null value carries the slot's
\* declared kind as its tag.
C12_ReferenceEncoding ==
    (call.op = "to_json" /\ ~call.raised) =>
       \A sl \in wire_inputs(call.stage) :
          LET v == bound_value(call.stage, sl.name)
          IN /\ (isSlotDescriptor(v) /\ ~v.is_input) =>
                   call.ret.inputs[sl.server_name] =
                      [tag |-> "StageOutputDef",
                       js |-> [stageName |-> bound_value(v.parent, "name"),
                               outputName |-> output_slot_of(v).server_name]]
             /\ (v # NoneV /\ ~isSlotDescriptor(v)) =>
                   call.ret.inputs[sl.server_name].tag = sl.message_type

\* C12 happens: a Drop whose Value input col_names is bound to the output of a
\* named ValuePlaceholder and whose input_df is bound to a Dataframe is
\* serialized
C12_Witness ==
    /\ call.op = "to_json"
    /\ ~call.raised
    /\ stage_class[call.stage] = "Drop"
    /\ isSlotDescriptor(bound_value(call.stage, "col_names"))
    /\ bound_value(bound_value(call.stage, "col_names").parent, "name") # NoneV
    /\ bound_value(call.stage, "input_df") = DataframeV(1)
    /\ call.ret.inputs["colNames"].tag = "StageOutputDef"

\* C13: the inputs map of the result of Stage.to_json has an entry, keyed by
\* wire name, for exactly the input slots other than the name slot whose bound
\* value is not null; the name appears as the top-level name field only, and
\* outputs is empty.
C13_InputsAreBoundSlots ==
    (call.op = "to_json" /\ ~call.raised) =>
       /\ DOMAIN call.ret.inputs =
            {sl.server_name : sl \in {x \in wire_inputs(call.stage) :
                                        bound_value(call.stage, x.name) # NoneV}}
       /\ "name" \notin DOMAIN call.ret.inputs
       /\ call.ret.name = bound_value(call.stage, "name")
       /\ call.ret.outputs = EmptyDict

\* C13 happens: a named Drop with input_df bound and col_names set to None is
\* serialized
C13_Witness ==
    /\ call.op = "to_json"
    /\ ~call.raised
    /\ stage_class[call.stage] = "Drop"
    /\ bound_value(call.stage, "name") # NoneV
    /\ bound_value(call.stage, "input_df") # NoneV
    /\ "col_names" \in DOMAIN slot_values[call.stage]
    /\ bound_value(call.stage, "col_names") = NoneV
    /\ DOMAIN call.ret.inputs = {"inputDf"}

\* the stage an element of outputs or a key of feeds belongs to
item_parent(o) == IF o.k = "Stage" THEN o.id ELSE o.parent

\* the wire name of the slot run uses for an element of outputs or a key of
\* feeds: the input_val slot of a Placeholder object, else the descriptor's slot
item_wire_name(o) ==
    IF o.k = "Stage" THEN "inputVal"
    ELSE (CHOOSE sl \in elems(get_slots(stage_class[o.parent], o.is_input)) :
            sl.name = o.name).server_name

\* C14: a request sent by run names every stage by its current name: in the
\* serialization of a stage B whose input is bound to an output of a stage A,
\* in the outputs list and in the feed keys, a stage renamed with set_name
\* appears under its new name.
C14_DescriptorsUseCurrentName ==
    (call.op = "run" /\ call.sent # << >>) =>
       LET req == call.sent[1]
           st == stages[call.pipeline]
       IN /\ \A i \in 1 .. Len(st) : \A sl \in wire_inputs(st[i]) :
               isSlotDescriptor(bound_value(st[i], sl.name)) =>
                  req.pipeline.stages[i].inputs[sl.server_name].js.stageName =
                     bound_value(bound_value(st[i], sl.name).parent, "name")
          /\ \A i \in 1 .. Len(call.outputs.items) :
               req.outputs[i].stageName =
                  bound_value(item_parent(call.outputs.items[i]), "name")
          /\ \A i \in 1 .. Len(call.feeds) :
               (bound_value(item_parent(call.feeds[i][1]), "name").v \o ":"
                  \o item_wire_name(call.feeds[i][1])) \in DOMAIN req.feeds

\* C14 happens: a stage got the name "x" from set_name (the constructors of
\* this specification pass no name), an input of a stage of the pipeline is
\* bound to its output, and a run sent a request with a descriptor of it as
\* an output and with the stage as a feed key
C14_Witness ==
    /\ call.op = "run"
    /\ call.sent # << >>
    /\ \E a \in built :
         /\ bound_value(a, "name") = TextV("x")
         /\ \E i \in 1 .. Len(stages[call.pipeline]) :
              /\ isSlotDescriptor(bound_value(stages[call.pipeline][i], "input_df"))
              /\ bound_value(stages[call.pipeline][i], "input_df").parent = a
              /\ call.sent[1].pipeline.stages[i].inputs["inputDf"].js.stageName = TextV("x")
         /\ Len(call.outputs.items) = 1
         /\ isSlotDescriptor(call.outputs.items[1])
         /\ call.outputs.items[1].parent = a
         /\ call.sent[1].outputs[1].stageName = TextV("x")
         /\ Len(call.feeds) = 1
         /\ item_parent(call.feeds[1][1]) = a
         /\ "x:inputVal" \in DOMAIN call.sent[1].feeds

\* d is a SlotDescriptor of stage s that is an input slot
is_own_input(s, d) == isSlotDescriptor(d) /\ d.parent = s /\ d.is_input

\* the declared kind of the slot a descriptor d stands for
kind_of(d) ==
    (CHOOSE sl \in elems(get_slots(stage_class[d.parent], d.is_input)) :
       sl.name = d.name).message_type

\* what set_input(d, v) on s does when it accepts v: v is the value of d.name,
\* get_input(d) returns it and the other slots of s are as before
records_value(s, d, v) ==
    /\ ~call'.raised
    /\ d.name \in DOMAIN slot_values'[s]
    /\ slot_values'[s][d.name] = v
    /\ get_input(slot_values', s, d, NoneV) = v
    /\ \A n \in DOMAIN slot_values[s] \ {d.name} :
         n \in DOMAIN slot_values'[s] /\ slot_values'[s][n] = slot_values[s][n]

\* C15 as claimed: set_input(d, v) on s raises and leaves the bound inputs of s
\* unchanged when d is not an input descriptor of s or v fails
\* MessageType.is_valid for the kind of d, and records v in every other case.
C15_SetInputChecked ==
    [][call'.op = "set_input" =>
         IF \/ ~is_own_input(call'.stage, call'.slot_desc)
            \/ ~is_valid(stage_class, kind_of(call'.slot_desc), call'.value)
         THEN call'.raised /\ slot_values' = slot_values
         ELSE records_value(call'.stage, call'.slot_desc, call'.value)]_vars

\* v is not accepted as the value of a slot of kind k: a descriptor that is an
\* input slot or has another kind, or another value that fails is_valid
rejected_value(k, v) ==
    IF isSlotDescriptor(v) THEN v.is_input \/ kind_of(v) # k
    ELSE ~is_valid(stage_class, k, v)

\* C15 amended: set_input(d, v) on s raises and leaves the bound inputs
\* unchanged when d is not an input descriptor of s, when v is a descriptor
\* that is an input slot or has another kind than d, or when v is another
\* value that fails is_valid for the kind of d; in every other case it
\* records v, and get_input(d) then returns v.
C15_SetInputRejectsInputDescriptors ==
    [][call'.op = "set_input" =>
         IF \/ ~is_own_input(call'.stage, call'.slot_desc)
            \/ rejected_value(kind_of(call'.slot_desc), call'.value)
         THEN call'.raised /\ slot_values' = slot_values
         ELSE records_value(call'.stage, call'.slot_desc, call'.value)]_vars

\* C15 happens: set_input raised for a value that is an input descriptor of
\* the kind of the slot, which is_valid accepts
C15_Witness ==
    /\ call.op = "set_input"
    /\ call.raised
    /\ is_own_input(call.stage, call.slot_desc)
    /\ isSlotDescriptor(call.value)
    /\ call.value.is_input
    /\ kind_of(call.value) = kind_of(call.slot_desc)
    /\ is_valid(stage_class, kind_of(call.slot_desc), call.value)

\* the declared kind of the input slot named n of stage s
input_kind(s, n) ==
    (CHOOSE sl \in elems(get_slots(stage_class[s], TRUE)) : sl.name = n).message_type

\* C16: in every reachable state each value bound to an input slot of a stage
\* is null, a non-descriptor value valid for the kind of the slot, or an
\* output descriptor whose kind is the kind of the slot.
C16_BindingsAreValid ==
    \A s \in built : \A n \in DOMAIN slot_values[s] :
       LET v == slot_values[s][n]
       IN \/ v = NoneV
          \/ ~isSlotDescriptor(v) /\ isinstance_of(v, input_kind(s, n))
          \/ /\ isSlotDescriptor(v)
             /\ ~v.is_input
             /\ v.parent \in built
             /\ kind_of(v) = input_kind(s, n)

\* C16 happens: set_input has bound an output descriptor to a slot of a stage
\* that has another slot bound to a plain value
C16_Witness ==
    /\ call.op = "set_input"
    /\ ~call.raised
    /\ isSlotDescriptor(call.value)
    /\ slot_values[call.stage][call.slot_desc.name] = call.value
    /\ \E n \in DOMAIN slot_values[call.stage] :
         slot_values[call.stage][n] # NoneV /\ ~isSlotDescriptor(slot_values[call.stage][n])

(***************************************************************************)
(* Claims about the slots of stage classes.                                *)
(***************************************************************************)
\* C17: a class definition that does not raise gives a class whose merged
\* slot list has, in each direction, no two slots of the same name; a
\* definition that would give a duplicate raises.
C17_SlotNamesUnique ==
    (call.op = "class" /\ ~call.raised) =>
       \A is_input \in BOOLEAN : \A i, j \in 1 .. Len(call.slots[is_input]) :
          i # j => call.slots[is_input][i].name # call.slots[is_input][j].name

(***************************************************************************)
(* Claims about the lookup of stages in a pipeline.                        *)
(***************************************************************************)
\* C18: `s in p` for a stage object s is true exactly when s has been added
\* to p, whatever names the stages have been given.
C18_StageInPipeline ==
    (call.op = "contains" /\ call.item.k = "Stage") =>
       (call.ret <=> call.item.id \in elems(stages[call.pipeline]))

\* C18 happens: `s in p` is false for a stage that was not added and has the
\* name of a stage of p
C18_Witness ==
    /\ call.op = "contains"
    /\ call.item.k = "Stage"
    /\ ~call.ret
    /\ get_name(slot_values, call.item.id) # NoneV
    /\ name_used(slot_values, stages[call.pipeline], get_name(slot_values, call.item.id))

\* C19: for a name n, `n in p` is true and p[n] returns a stage of p named n
\* when some stage of p has the name n; otherwise `n in p` is false and p[n]
\* raises KeyError.
C19_NameLookup ==
    /\ (call.op = "contains" /\ call.item.k = "text") =>
          (call.ret <=> name_used(slot_values, stages[call.pipeline], call.item))
    /\ (call.op = "getitem" /\ call.item.k = "text") =>
          IF name_used(slot_values, stages[call.pipeline], call.item)
          THEN /\ ~call.raised
               /\ call.ret.k = "Stage"
               /\ call.ret.id \in elems(stages[call.pipeline])
               /\ get_name(slot_values, call.ret.id) = call.item
          ELSE call.raised

(***************************************************************************)
(* Claims about the feeds of Pipeline.run.                                 *)
(***************************************************************************)
\* the i-th key of the feeds of the call is a Placeholder stage object
placeholder_key(i) ==
    /\ call.feeds[i][1].k = "Stage"
    /\ isPlaceholderClass(stage_class[call.feeds[i][1].id])

\* the feeds of the call with p.input_val in the place of every Placeholder p
feeds_by_input_val ==
    [i \in 1 .. Len(call.feeds) |->
       IF placeholder_key(i)
       THEN << SlotDescriptor(call.feeds[i][1].id, "input_val", TRUE), call.feeds[i][2] >>
       ELSE call.feeds[i]]

\* C20: a run whose feeds have a Placeholder stage p as a key does what the
\* run with the key p.input_val does: it raises before sending in the same
\* cases and sends the same request, in which the encoded value is stored
\* under the key "<name of p>:inputVal".
C20_PlaceholderFeedKey ==
    (call.op = "run" /\ \E i \in 1 .. Len(call.feeds) : placeholder_key(i)) =>
       /\ (call.sent = << >>) <=>
             run_raises_early(stage_class, slot_values, stages[call.pipeline],
                              call.outputs, feeds_by_input_val)
       /\ call.sent # << >> =>
             /\ call.sent[1] = run_request(stage_class, slot_values, stages[call.pipeline],
                                           NoneV, call.outputs, feeds_by_input_val)
             /\ \A i \in 1 .. Len(call.feeds) :
                  placeholder_key(i) =>
                     LET key == bound_value(call.feeds[i][1].id, "name").v \o ":inputVal"
                     IN /\ key \in DOMAIN call.sent[1].feeds
                        /\ call.sent[1].feeds[key].tag = DATAFRAME_DEF
                        /\ call.sent[1].feeds[key].js = [dfId |-> call.feeds[i][2].id]

\* C20 happens: a request was sent for feeds with a Placeholder object as key
C20_Witness ==
    /\ call.op = "run"
    /\ call.sent # << >>
    /\ Len(call.feeds) = 1
    /\ placeholder_key(1)
    /\ call.feeds[1][2] = DataframeV(1)
    /\ DOMAIN call.sent[1].feeds =
         {bound_value(call.feeds[1][1].id, "name").v \o ":inputVal"}

(***************************************************************************)
(* Claims about the descriptors of slots.                                  *)
(***************************************************************************)
\* C21: for every stage and every slot name declared on its class, repeated
\* accesses of the attribute return the identical SlotDescriptor object (no
\* two objects were ever constructed for the same stage and slot name), the
\* object has that stage as parent, the slot name as name and the declared
\* direction, and no object is a descriptor of two different stages.
C21_DescriptorsMemoized ==
    /\ \A i, j \in 1 .. Len(descriptors) :
         (/\ descriptors[i].parent = descriptors[j].parent
          /\ descriptors[i].name = descriptors[j].name) => i = j
    /\ (call.op = "getattr" /\ ~call.raised) =>
         /\ call.ret \in 1 .. Len(descriptors)
         /\ descriptors[call.ret].parent = call.stage
         /\ descriptors[call.ret].name = call.name
         /\ \E sl \in elems(get_slots(stage_class[call.stage],
                                      descriptors[call.ret].is_input)) :
               sl.name = call.name
         /\ \A sl \in elems(get_slots(stage_class[call.stage],
                                      ~descriptors[call.ret].is_input)) :
               sl.name # call.name
    /\ \A s, t \in built : \A n \in DOMAIN slot_desc_attr[s], m \in DOMAIN slot_desc_attr[t] :
         slot_desc_attr[s][n] = slot_desc_attr[t][m] => (s = t /\ n = m)

\* C21 happens: an output slot of a stage is read a second time (the object
\* returned is older than the newest one), and the other stage, of the same
\* class, has its own descriptor of that slot
C21_Witness ==
    /\ call.op = "getattr"
    /\ ~call.raised
    /\ call.name = "output_val"
    /\ call.ret < Len(descriptors)
    /\ ~descriptors[call.ret].is_input
    /\ \E t \in built :
         /\ t # call.stage
         /\ stage_class[t] = stage_class[call.stage]
         /\ "output_val" \in DOMAIN slot_desc_attr[t]

(***************************************************************************)
(* Claims about the requests of Pipeline.run.                              *)
(***************************************************************************)
\* C22: a run sends one request and no more, whatever the number and kinds of
\* its outputs: every run that gets as far as the engine, and so every run
\* that returns, has sent exactly one request, and a run whose request the
\* engine fails raises after that one request.
C22_OneRequestPerRun ==
    call.op = "run" =>
       /\ Len(call.sent) <= 1
       /\ ~call.raised => Len(call.sent) = 1
       /\ call.engine.k = "error" => (call.raised /\ Len(call.sent) = 1)

(***************************************************************************)
(* Claims about MessageType.                                               *)
(***************************************************************************)
\* the tags MessageType.to_json can produce
to_json_tags == {VALUE_DEF, STAGE_OUTPUT_DEF, DATAFRAME_DEF, COLUMN_DEF}

\* C23: to_json fails for every value that does not pass is_valid, and
\* from_json decodes every pair whose tag is one that to_json can produce.
C23_EncodeValidDecodeProduced ==
    /\ (/\ call.op = "message_to_json"
        /\ \/ is_valid_raises(call.msg_type, call.value)
           \/ ~is_valid(stage_class, call.msg_type, call.value))
          => call.raised
    /\ (call.op = "message_from_json" /\ call.js_data.tag \in to_json_tags)
          => ~call.raised

\* v is a handle of the opaque type of kind k
is_handle(k, v) ==
    \/ k = DATAFRAME_DEF /\ v.k = "Dataframe"
    \/ k = MODEL_DEF /\ v.k = "Model"

\* C24: for the kinds Dataframe and Model, is_valid(v) of a non-null v returns
\* (it does not raise) and returns true exactly when v is a handle of the kind
\* or a SlotDescriptor of that kind; for the kind StageOutputDef it returns
\* true for no non-null value other than a SlotDescriptor.
C24_IsValidByKind ==
    (call.op = "is_valid" /\ call.value # NoneV) =>
       /\ call.msg_type \in {DATAFRAME_DEF, MODEL_DEF} =>
            /\ ~call.raised
            /\ call.ret = (\/ is_handle(call.msg_type, call.value)
                           \/ /\ isSlotDescriptor(call.value)
                              /\ kind_of(call.value) = call.msg_type)
       /\ call.msg_type = STAGE_OUTPUT_DEF =>
            /\ ~call.raised
            /\ call.ret = TRUE => isSlotDescriptor(call.value)

(***************************************************************************)
(* Claims about Session.read_local.                                        *)
(***************************************************************************)
\* the data format a fmt argument names, whatever its case
format_named(fmt) ==
    CASE fmt \in {"csv", "CSV"} -> "csv"
      [] fmt \in {"json", "Json"} -> "json"
      [] OTHER -> fmt

\* the class of options that belongs to a format, "none" when it has none
options_class(format) ==
    CASE format = "csv" -> "CsvReadOptions"
      [] format = "json" -> "JsonReadOptions"
      [] format = "parquet" -> "ParquetReadOptions"
      [] OTHER -> "none"

\* C25: read_local, read_csv and read_json raise ValueError, before the file
\* is uploaded and before any read request, when options is not null and is
\* not of the options class of the format (no options are allowed for orc and
\* text), or when the format is none of csv, json, parquet, orc, text.
C25_ReadOptionsVerified ==
    (/\ call.op \in {"read_local", "read_csv", "read_json"}
     /\ \/ format_named(call.fmt) \notin {"csv", "json", "parquet", "orc", "text"}
        \/ /\ call.options # NoneV
           /\ call.options.k # options_class(format_named(call.fmt)))
       => /\ call.raised
          /\ call.error = "ValueError"
          /\ call.sent = << >>

\* C25 happens: read_json with CsvReadOptions raised before anything was sent
C25_Witness ==
    /\ call.op = "read_json"
    /\ call.options.k = "CsvReadOptions"
    /\ call.raised
    /\ call.error = "ValueError"
    /\ call.sent = << >>

(***************************************************************************)
(* Claims about what Pipeline.run leaves of the pipeline.                  *)
(***************************************************************************)
\* C26 as claimed: whenever run raises, the id of the pipeline, its stage list
\* and the bound inputs of every stage are the same as before the call.
C26_RaisingRunChangesNothing ==
    [][(call'.op = "run" /\ call'.raised)
       => /\ id' = id
          /\ stages' = stages
          /\ slot_values' = slot_values]_vars

\* C26 amended: whenever run raises, the stage list and the bound inputs of
\* every stage are the same as before the call; the id is the same as before
\* when run raised before the engine answered (invalid output or feed, failed
\* request), and is the pipelineId of the response when run raised while it
\* checked and decoded the results.
C26_RaisingRunKeepsGraph ==
    [][(call'.op = "run" /\ call'.raised)
       => /\ stages' = stages
          /\ slot_values' = slot_values
          /\ call'.engine.k \in {"none", "error"} => id' = id
          /\ call'.engine.k = "ok" =>
               /\ id'[call'.pipeline] = call'.engine.pipelineId
               /\ \A q \in Pipelines \ {call'.pipeline} : id'[q] = id[q]]_vars

\* C26 happens: a run whose request failed has left the id an earlier run
\* gave to the pipeline, which differs from the one a response would carry
C26_Witness ==
    /\ call.op = "run"
    /\ call.raised
    /\ call.engine.k = "error"
    /\ id[call.pipeline] = IdV(2)
    /\ stages[call.pipeline] # << >>

\* C27: a run, whether it returns or raises and whatever its feeds, leaves the
\* stage list and the bound inputs and name of every stage as they were, and
\* the stages of its request are the serialization of the graph as it is, the
\* one a run without feeds sends: the feeds are in the feeds of the request
\* only.
C27_RunLeavesGraph ==
    [][call'.op = "run"
       => /\ stages' = stages
          /\ slot_values' = slot_values
          /\ call'.sent # << >> =>
               /\ call'.sent[1].pipeline.stages =
                    [i \in 1 .. Len(stages'[call'.pipeline]) |->
                       stage_to_json(stage_class', slot_values',
                                     stages'[call'.pipeline][i])]
               /\ call'.sent[1].pipeline =
                    run_request(stage_class, slot_values, stages[call'.pipeline], NoneV,
                                call'.outputs, << >>).pipeline]_vars

\* C27 happens: a run that fed a Dataframe to the input of a Placeholder of a
\* pipeline of two stages has returned, and the input of the Placeholder is
\* not bound
C27_Witness ==
    /\ call.op = "run"
    /\ ~call.raised
    /\ Len(stages[call.pipeline]) = 2
    /\ Len(call.feeds) = 1
    /\ call.feeds[1][2] = DataframeV(1)
    /\ run_slot_desc(stage_class, call.feeds[1][1]).name = "input_val"
    /\ bound_value(item_parent(call.feeds[1][1]), "input_val") = NoneV
    /\ DOMAIN call.sent[1].feeds # {}

(***************************************************************************)
(* Claims about the membership of stages in pipelines.                     *)
(***************************************************************************)
\* C28: in every reachable state a stage is in the stage list of at most one
\* pipeline.
C28_StageInOnePipeline ==
    \A s \in built : \A p, q \in AllPipelines :
       (s \in elems(stages[p]) /\ s \in elems(stages[q])) => p = q

\* the i-th keyword argument of the constructor call is a Placeholder object
placeholder_arg(i) ==
    /\ call.kwargs[i][2].k = "Stage"
    /\ isPlaceholderClass(stage_class[call.kwargs[i][2].id])

\* C29: after a constructor call that returned, made while p was the current
\* pipeline, the new stage is in p; an input given as a Placeholder is bound
\* to the descriptor of the output_val slot of that Placeholder, an input
\* given as an output descriptor is bound to it, and in both cases the stage
\* that has the output is in p.
C29_ConstructorAddsParents ==
    (call.op = "create" /\ ~call.raised) =>
       /\ call.stage \in elems(stages[call.pipeline])
       /\ \A i \in 1 .. Len(call.kwargs) :
            LET k == call.kwargs[i][1]
                v == call.kwargs[i][2]
            IN /\ placeholder_arg(i) =>
                    /\ bound_value(call.stage, k) = SlotDescriptor(v.id, "output_val", FALSE)
                    /\ v.id \in elems(stages[call.pipeline])
               /\ (isSlotDescriptor(v) /\ ~v.is_input) =>
                    /\ bound_value(call.stage, k) = v
                    /\ v.parent \in elems(stages[call.pipeline])

\* C29 happens: drop() was given a Placeholder that is also in the other
\* pipeline, and the Placeholder is now in the current pipeline, before the
\* new stage
C29_Witness ==
    /\ call.op = "create"
    /\ ~call.raised
    /\ call.class = "Drop"
    /\ placeholder_arg(1)
    /\ stages[call.pipeline] = << call.kwargs[1][2].id, call.stage >>
    /\ \E q \in AllPipelines \ {call.pipeline} : call.kwargs[1][2].id \in elems(stages[q])

\* the names of the stages of the pipeline of a request
request_stage_names(data) ==
    {data.pipeline.stages[i].name : i \in 1 .. Len(data.pipeline.stages)} \ {NoneV}

\* the key of feeds_json is <stage name>:<server name of a slot>, with the
\* name of a stage of the pipeline of the request
feed_key_in_pipeline(data, key) ==
    \E nm \in request_stage_names(data) :
       \E s \in built, io \in BOOLEAN :
          \E i \in 1 .. Len(get_slots(stage_class[s], io)) :
             key = nm.v \o ":" \o get_slots(stage_class[s], io)[i].server_name

\* C30: in the 'pipeline/run' request of every run, the stageName of each
\* entry of outputs and the stage name of each key of feeds is the name of a
\* stage of the request's pipeline.stages, never null or the name of no stage
\* of them.
C30_RequestNamesPipelineStages ==
    (call.op = "run" /\ call.sent # << >>) =>
       LET data == call.sent[1]
       IN /\ \A i \in 1 .. Len(data.outputs) :
               data.outputs[i].stageName \in request_stage_names(data)
          /\ \A key \in DOMAIN data.feeds : feed_key_in_pipeline(data, key)

====
